---- MODULE Spec2Model ----
(***************************************************************************)
(* The Radius Intelligence Engine: crawler, knowledge refiner, question    *)
(* generator, LLM tester, scoring engine and the orchestrator that runs    *)
(* them in sequence (backend/services/radius_*.py).                        *)
(*                                                                         *)
(* Strings that the code only passes along are kept as strings; texts      *)
(* whose length is all the code reads are kept as their length.  A Python  *)
(* float that is the quotient of two integers, or a decimal literal, is    *)
(* kept as the exact fraction [n |-> .., d |-> ..] it was computed from.   *)
(***************************************************************************)
EXTENDS Integers, Sequences, FiniteSets, TLC

(***************************************************************************)
(* Bounds of the model.                                                    *)
(***************************************************************************)
MaxServed == 6     \* a site serves at most this many of the priority paths
MaxQ == 2          \* questions in a QuestionSet returned by the LLM

(***************************************************************************)
(* Arithmetic.                                                             *)
(***************************************************************************)
\* The float n / d (d > 0), kept as the fraction it was computed from.
Rat(n, d) == [n |-> n, d |-> d]

Zero == Rat(0, 1)

RatLess(x, y) == x.n * y.d < y.n * x.d

RatEq(x, y) == x.n * y.d = y.n * x.d

Max2(a, b) == IF a >= b THEN a ELSE b

Min2(a, b) == IF a <= b THEN a ELSE b

RECURSIVE SumSeq(_)
SumSeq(s) == IF s = <<>> THEN 0 ELSE Head(s) + SumSeq(Tail(s))

\* s[:k] of Python, k >= 0.
Take(s, k) == SubSeq(s, 1, Min2(k, Len(s)))

(***************************************************************************)
(* Python floats.  A binary64 value of magnitude below 2^15 that is a      *)
(* multiple of 2^-75 is kept as its six base-2^15 digits, least            *)
(* significant first: f[6] is the integer part.  Every quotient, product,  *)
(* sum and difference is rounded to 53 significant bits, to nearest, ties  *)
(* to even, as the hardware does.                                          *)
(***************************************************************************)
Limb == 2 ^ 15

\* The six digits of the number whose digits, least significant first, are
\* the integers of s: carries and borrows are passed upwards.
Propagate(s) ==
    LET x1 == s[1]
        x2 == s[2] + (x1 \div Limb)
        x3 == s[3] + (x2 \div Limb)
        x4 == s[4] + (x3 \div Limb)
        x5 == s[5] + (x4 \div Limb)
        x6 == s[6] + (x5 \div Limb)
    IN  <<x1 % Limb, x2 % Limb, x3 % Limb, x4 % Limb, x5 % Limb, x6>>

\* x < y
FLess(x, y) ==
    \E i \in 1..6 : x[i] < y[i] /\ \A j \in (i + 1)..6 : x[j] = y[j]

RECURSIVE BitLenSmall(_)
BitLenSmall(x) == IF x = 0 THEN 0 ELSE 1 + BitLenSmall(x \div 2)

BitLen(x) ==
    IF x[6] # 0 THEN 75 + BitLenSmall(x[6])
    ELSE IF x[5] # 0 THEN 60 + BitLenSmall(x[5])
    ELSE IF x[4] # 0 THEN 45 + BitLenSmall(x[4])
    ELSE IF x[3] # 0 THEN 30 + BitLenSmall(x[3])
    ELSE IF x[2] # 0 THEN 15 + BitLenSmall(x[2])
    ELSE BitLenSmall(x[1])

\* Bit j (from 0) of x.
Bit(x, j) == (x[(j \div 15) + 1] \div (2 ^ (j % 15))) % 2

\* Round to nearest, ties to even: whether cutting x above bit g rounds up.
\* sticky: the exact value lies above x by less than 2^-75.
RoundsUp(x, sticky, g) ==
    /\ Bit(x, g) = 1
    /\ \/ sticky
       \/ \E i \in 1..(g \div 15) : x[i] # 0
       \/ x[(g \div 15) + 1] % (2 ^ (g % 15)) # 0
       \/ Bit(x, g + 1) = 1

\* x without its lowest 15 * q + r bits, one unit higher if up.
Cut(x, q, r, up) ==
    Propagate([i \in 1..6 |->
                 IF i <= q THEN 0
                 ELSE IF i = q + 1
                      THEN x[i] - (x[i] % (2 ^ r)) + (IF up THEN 2 ^ r ELSE 0)
                      ELSE x[i]])

RoundAt(x, sticky, drop) ==
    IF drop <= 0 THEN x
    ELSE Cut(x, drop \div 15, drop % 15, RoundsUp(x, sticky, drop - 1))

\* x rounded to 53 significant bits.
Round53(x, sticky) == RoundAt(x, sticky, BitLen(x) - 53)

\* a / b for integers 0 <= a < 2^15, 0 < b < 2^15; also the float a
\* literal such as 0.35 (35 / 100) denotes.  r0..r5 are the remainders of
\* the long division.
FDiv(a, b) ==
    LET r0 == a % b
        r1 == (r0 * Limb) % b
        r2 == (r1 * Limb) % b
        r3 == (r2 * Limb) % b
        r4 == (r3 * Limb) % b
        r5 == (r4 * Limb) % b
    IN  Round53(<<(r4 * Limb) \div b, (r3 * Limb) \div b, (r2 * Limb) \div b,
                  (r1 * Limb) \div b, (r0 * Limb) \div b, a \div b>>,
                r5 # 0)

\* x * k for an integer 0 <= k < 2^15.
FMul(x, k) == Round53(Propagate([i \in 1..6 |-> x[i] * k]), FALSE)

FAdd(x, y) == Round53(Propagate([i \in 1..6 |-> x[i] + y[i]]), FALSE)

\* x - y for x >= y.
FSub(x, y) == Round53(Propagate([i \in 1..6 |-> x[i] - y[i]]), FALSE)

\* int(x) for x >= 0.
FInt(x) == x[6]

\* The float of the fraction r.n / r.d.
Fl(r) == FDiv(r.n, r.d)

(***************************************************************************)
(* Phase 1: the crawler (radius_crawler.py).                               *)
(*                                                                         *)
(* A site is what the target domain answers: served is the set of indices  *)
(* of priority_paths that answer 200 with HTML (every other request times  *)
(* out, raises, or answers 404/429/...), len the length of the cleaned     *)
(* text of each served page, title its title ("" when it has none).        *)
(***************************************************************************)
priority_paths ==
    << <<"/", "homepage">>, <<"/about", "about">>, <<"/about-us", "about">>,
       <<"/company", "about">>, <<"/products", "products">>,
       <<"/product", "products">>, <<"/services", "products">>,
       <<"/solutions", "products">>, <<"/features", "products">>,
       <<"/pricing", "pricing">>, <<"/plans", "pricing">>,
       <<"/docs", "documentation">>, <<"/documentation", "documentation">>,
       <<"/help", "support">>, <<"/support", "support">>, <<"/blog", "blog">>,
       <<"/resources", "resources">>, <<"/customers", "customers">>,
       <<"/case-studies", "customers">>, <<"/security", "trust">>,
       <<"/privacy", "trust">>, <<"/compliance", "trust">> >>

\* The keys of raw_content, in insertion order.
ContentTypeOrder == <<"homepage", "about", "products", "pricing",
                      "documentation", "support", "blog", "customers", "trust",
                      "resources">>

ContentTypes == {ContentTypeOrder[i] : i \in 1..Len(ContentTypeOrder)}

\* None (success FALSE) or the page_data dict of the i-th priority path.
_crawl_page(site, i) ==
    IF i \in site.served
    THEN [success |-> TRUE, text |-> site.len, title |-> site.title]
    ELSE [success |-> FALSE, text |-> 0, title |-> ""]

\* len(_clean_text(raw)): raw is '\n\n' + text for each page appended; runs
\* of newlines collapse to two and the ends are stripped.  texts: the
\* lengths of the appended page texts, none of which holds a newline.
_clean_text(texts) ==
    LET filled == SelectSeq(texts, LAMBDA t : t > 0)
    IN  IF filled = <<>> THEN 0 ELSE SumSeq(filled) + 2 * (Len(filled) - 1)

\* The loop ending at the first page that fails.
RECURSIVE CrawlLoop_until_failure(_, _, _, _)
CrawlLoop_until_failure(site, max_pages, i, st) ==
    IF i > Len(priority_paths) \/ st.pages_crawled >= max_pages THEN st
    ELSE IF ~_crawl_page(site, i).success
    THEN [st EXCEPT !.requested = Append(@, i), !.pages_attempted = @ + 1]
    ELSE CrawlLoop_until_failure(site, max_pages, i + 1,
            [st EXCEPT !.requested = Append(@, i), !.pages_attempted = @ + 1,
                       !.pages_crawled = @ + 1, !.pages = @ \cup {i}])

RECURSIVE CrawlLoop(_, _, _, _)
CrawlLoop(site, max_pages, i, st) ==
    IF i > Len(priority_paths) \/ st.pages_crawled >= max_pages THEN st
    ELSE LET page_type == priority_paths[i][2]
             page_data == _crawl_page(site, i)
         IN  CrawlLoop(site, max_pages, i + 1,
               IF page_data.success
               THEN [requested |-> Append(st.requested, i),
                     pages_attempted |-> st.pages_attempted + 1,
                     pages_crawled |-> st.pages_crawled + 1,
                     pages |-> st.pages \cup {i},
                     raw |-> IF page_type \in ContentTypes
                             THEN [st.raw EXCEPT ![page_type] =
                                      Append(@, page_data.text)]
                             ELSE st.raw,
                     \* _extract_structured_data: the first non-empty title
                     title |-> IF st.title = "" THEN page_data.title
                               ELSE st.title]
               ELSE [st EXCEPT !.requested = Append(@, i),
                               !.pages_attempted = @ + 1])

\* The loop variables before the first iteration; requested: the indices of
\* the priority paths requested so far, in request order.
CrawlStart ==
    [requested |-> <<>>, pages_attempted |-> 0, pages_crawled |-> 0,
     pages |-> {}, raw |-> [t \in ContentTypes |-> <<>>], title |-> ""]

\* The requests.get calls of one crawl_comprehensive call, in order.
CrawlRequests(site, max_pages) ==
    CrawlLoop(site, max_pages, 1, CrawlStart).requested

crawl_comprehensive(site, max_pages) ==
    LET st == CrawlLoop(site, max_pages, 1, CrawlStart)
    IN  [metadata |-> [domain |-> site.domain,
                       pages_attempted |-> st.pages_attempted,
                       pages_successful |-> st.pages_crawled],
         pages |-> st.pages,
         \* each section cleaned and cut to 8000 characters
         raw_content |-> [t \in ContentTypes |->
                             Min2(8000, _clean_text(st.raw[t]))],
         extracted_data |-> [title |-> st.title]]

(***************************************************************************)
(* Phases 2 and 3: the knowledge refiner (radius_knowledge_engine.py).     *)
(*                                                                         *)
(* gpt is the outcome of the one chat-completion call: kind "raise" (the   *)
(* call or json.loads raised) or "json" with the parsed object in gpt.kb.  *)
(* overview_is_dict is FALSE when 'company_overview' of that object is not *)
(* a JSON object (null, a string, a list).                                 *)
(***************************************************************************)
\* domain.split('.')[0].capitalize()
HostLabel(domain) == IF domain = "example.com" THEN "Example" ELSE domain

KbContent(name, founded, offering, overview_is_dict) ==
    [company_overview |-> [name |-> name, founded |-> founded],
     overview_is_dict |-> overview_is_dict,
     business_model |-> [primary_offering |-> offering]]

\* _validate_and_score with the HIGH and MEDIUM outcomes exchanged.
_validate_and_score_exchanged(kb_response, crawl_data) ==
    LET pages_crawled == crawl_data.metadata.pages_successful
        total_content ==
            SumSeq([i \in 1..Len(ContentTypeOrder) |->
                       crawl_data.raw_content[ContentTypeOrder[i]]])
        high == pages_crawled >= 5 /\ total_content > 10000
        medium == pages_crawled >= 3 /\ total_content > 5000
    IN  [knowledge_base |-> kb_response,
         metadata |-> [source |-> "gpt_refined",
                       pages_analyzed |-> pages_crawled,
                       total_content_chars |-> total_content,
                       overall_confidence |-> IF high THEN "MEDIUM"
                                              ELSE IF medium THEN "HIGH"
                                              ELSE "LOW",
                       confidence_score |-> IF high THEN Rat(65, 100)
                                            ELSE IF medium THEN Rat(85, 100)
                                            ELSE Rat(4, 10)]]

_validate_and_score(kb_response, crawl_data) ==
    LET pages_crawled == crawl_data.metadata.pages_successful
        total_content ==
            SumSeq([i \in 1..Len(ContentTypeOrder) |->
                       crawl_data.raw_content[ContentTypeOrder[i]]])
        high == pages_crawled >= 5 /\ total_content > 10000
        medium == pages_crawled >= 3 /\ total_content > 5000
    IN  [knowledge_base |-> kb_response,
         metadata |-> [source |-> "gpt_refined",
                       pages_analyzed |-> pages_crawled,
                       total_content_chars |-> total_content,
                       overall_confidence |-> IF high THEN "HIGH"
                                              ELSE IF medium THEN "MEDIUM"
                                              ELSE "LOW",
                       confidence_score |-> IF high THEN Rat(85, 100)
                                            ELSE IF medium THEN Rat(65, 100)
                                            ELSE Rat(4, 10)]]

_create_fallback_kb(crawl_data) ==
    LET domain == crawl_data.metadata.domain
        extracted == crawl_data.extracted_data
    IN  [knowledge_base |->
            KbContent(\* extracted.get('title', <host label>)
                      IF "title" \in DOMAIN extracted THEN extracted.title
                      ELSE HostLabel(domain),
                      "Not stated", "Not determined", TRUE),
         metadata |-> [source |-> "fallback",
                       pages_analyzed |-> crawl_data.metadata.pages_successful,
                       total_content_chars |-> 0,
                       overall_confidence |-> "LOW",
                       confidence_score |-> Rat(2, 10)]]

\* has_key: OPENAI_API_KEY is set, so a client exists.
refine_and_create_kb(crawl_data, has_key, gpt) ==
    IF ~has_key THEN _create_fallback_kb(crawl_data)
    ELSE IF gpt.kind = "raise" THEN _create_fallback_kb(crawl_data)
    ELSE _validate_and_score(gpt.kb, crawl_data)

(***************************************************************************)
(* Phase 4: the question generator (radius_question_generator.py).         *)
(***************************************************************************)
Categories == {"DISCOVERY", "COMPARISON", "TRUST", "USE_CASE", "DECISION"}

\* The category of a question dict that has no 'category' key.
Missing == "<missing>"

Question(id, text, category, has_id, has_text) ==
    [id |-> id, text |-> text, category |-> category,
     has_id |-> has_id, has_text |-> has_text]

_structure_questions(questions, kb) ==
    [company_name |-> kb.company_overview.name,
     questions |-> questions,
     questions_by_category |->
        [cat \in Categories |->
            SelectSeq(questions, LAMBDA q :
                (IF q.category = Missing THEN "DISCOVERY" ELSE q.category) = cat)],
     metadata |-> [total_questions |-> Len(questions),
                   source |-> "gpt_generated"]]

_create_fallback_questions(knowledge_base) ==
    LET kb == knowledge_base.knowledge_base
        offering == kb.business_model.primary_offering
        questions ==
            << Question("q1", <<"What are the best", offering, "providers?">>,
                        "DISCOVERY", TRUE, TRUE),
               Question("q2", <<"How do I choose a", offering, "solution?">>,
                        "DECISION", TRUE, TRUE),
               Question("q3", <<"What should I look for in a", offering, "?">>,
                        "USE_CASE", TRUE, TRUE) >>
    IN  [company_name |-> kb.company_overview.name,
         questions |-> questions,
         questions_by_category |->
            [cat \in Categories |->
                CASE cat = "DISCOVERY" -> <<questions[1]>>
                  [] cat = "USE_CASE" -> <<questions[3]>>
                  [] cat = "DECISION" -> <<questions[2]>>
                  [] OTHER -> <<>>],
         metadata |-> [total_questions |-> Len(questions),
                       source |-> "fallback"]]

\* gpt: the outcome of the chat-completion call, kind "raise" or "json"
\* with the list under 'questions' in gpt.questions.
generate_questions(knowledge_base, has_key, gpt) ==
    IF ~has_key THEN _create_fallback_questions(knowledge_base)
    ELSE IF gpt.kind = "raise" THEN _create_fallback_questions(knowledge_base)
    ELSE _structure_questions(gpt.questions, knowledge_base.knowledge_base)

(***************************************************************************)
(* Phase 5: the LLM tester (radius_llm_tester.py).                         *)
(*                                                                         *)
(* A question is a dict of the QuestionSet; has_id / has_text say whether  *)
(* the keys 'id' and 'text' are present (q['id'], q['text'] raise KeyError *)
(* otherwise).  An answer is what one per-question request produced: an    *)
(* error (exception, timeout, non-200), or a response text, kept as the    *)
(* features _analyze_response reads from it.                               *)
(***************************************************************************)
\* The keys of the platforms dict, in insertion order.
PlatformOrder == <<"chatgpt", "claude", "gemini", "perplexity">>

Providers == {"chatgpt", "claude", "gemini", "perplexity"}

NoAnalysis ==
    [mentioned |-> FALSE, sentiment |-> "neutral", hallucination_risk |-> "low",
     response_length |-> 0, contains_recommendation |-> FALSE]

Response(has_brand, positive, negative, founded, length, recommend) ==
    [error |-> FALSE, has_brand |-> has_brand, positive |-> positive,
     negative |-> negative, founded |-> founded, length |-> length,
     recommend |-> recommend]

RequestError == [error |-> TRUE, has_brand |-> FALSE, positive |-> 0,
                 negative |-> 0, founded |-> FALSE, length |-> 0,
                 recommend |-> FALSE]

\* 'not stated' in str(kb.company_overview.founded).lower()
FoundedNotStated(kb) == kb.company_overview.founded = "Not stated"

_analyze_response(response, company_name, kb) ==
    LET \* company_lower in response_lower: the empty name is in every text
        mentioned == company_name = "" \/ response.has_brand
        sentiment == IF response.positive > response.negative THEN "positive"
                     ELSE IF response.negative > response.positive THEN "negative"
                     ELSE "neutral"
        hallucination_risk ==
            IF mentioned /\ response.founded /\ ~FoundedNotStated(kb)
            THEN "medium" ELSE "low"
    IN  [mentioned |-> mentioned, sentiment |-> sentiment,
         hallucination_risk |-> hallucination_risk,
         response_length |-> response.length,
         contains_recommendation |-> response.recommend]

\* simulated_score: <<v>> when the entry has the key, <<>> when it has not.
\* _create_unavailable_result carrying a built-in score.
_create_demo_result ==
    [available |-> FALSE, simulated |-> FALSE, questions_tested |-> 0,
     mention_count |-> 0, mention_rate |-> Zero, results |-> <<>>,
     simulated_score |-> <<60>>]

_create_unavailable_result ==
    [available |-> FALSE, simulated |-> FALSE, questions_tested |-> 0,
     mention_count |-> 0, mention_rate |-> Zero, results |-> <<>>,
     simulated_score |-> <<>>]

\* One provider tested with real requests: answers[i] is the outcome of the
\* request for the i-th of the first five questions.  exc: a KeyError left
\* the function (q['text'] or q['id'] of a question of the loop is missing:
\* the except branch reads both again).  asked: how many of the questions
\* were sent to the provider (q['text'] is read before the request is made,
\* q['id'] after it).
_test_openai(questions, company_name, kb, answers) ==
    LET tested == Take(questions, 5)
        broken == {i \in 1..Len(tested) :
                      ~tested[i].has_text \/ ~tested[i].has_id}
        last == IF broken = {} THEN Len(tested)
                ELSE CHOOSE i \in broken : \A j \in broken : i <= j
        results == [i \in 1..Len(tested) |->
            IF answers[i].error
            THEN [question_id |-> tested[i].id, error |-> TRUE,
                  analysis |-> NoAnalysis]
            ELSE [question_id |-> tested[i].id, error |-> FALSE,
                  analysis |-> _analyze_response(answers[i], company_name, kb)]]
        total_mentions ==
            Len(SelectSeq(results, LAMBDA r : ~r.error /\ r.analysis.mentioned))
    IN  IF broken # {}
        THEN [exc |-> TRUE, platform |-> _create_unavailable_result,
              asked |-> IF tested[last].has_text THEN last ELSE last - 1]
        ELSE [exc |-> FALSE,
              platform |->
                [available |-> TRUE, simulated |-> FALSE,
                 questions_tested |-> Len(results),
                 mention_count |-> total_mentions,
                 mention_rate |-> IF Len(results) > 0
                                  THEN Rat(total_mentions, Len(results))
                                  ELSE Zero,
                 results |-> results,
                 simulated_score |-> <<>>],
              asked |-> last]

_test_anthropic(questions, company_name, kb, answers) ==
    _test_openai(questions, company_name, kb, answers)

_test_gemini(questions, company_name, kb, answers) ==
    _test_openai(questions, company_name, kb, answers)

_test_perplexity(questions, company_name, kb, answers) ==
    _test_openai(questions, company_name, kb, answers)

(***************************************************************************)
(* The one simulation call.  sim.kind: "raise" (the call or json.loads     *)
(* raised: the built-in figures are used), "json" (a JSON object came      *)
(* back).  sim.rate[p] is the 'mention_rate' of platform p in that object: *)
(* kind "absent" (default 0.3), "num" (a number n/d) or "other" (a string, *)
(* null: int(mr * n) raises).  sim.score[p] is p.get('score', 60) of that  *)
(* object.                                                                 *)
(***************************************************************************)
SimNum(n, d) == [kind |-> "num", n |-> n, d |-> d]

SimAbsent == [kind |-> "absent", n |-> 3, d |-> 10]

SimOther == [kind |-> "other", n |-> 0, d |-> 1]

SimDefaults ==
    [p \in Providers |->
        CASE p = "chatgpt" -> SimNum(4, 10)
          [] p = "claude" -> SimNum(3, 10)
          [] p = "gemini" -> SimNum(35, 100)
          [] p = "perplexity" -> SimNum(45, 100)]

\* The 'score' figures of the built-in sim_data.
SimDefaultScores ==
    [p \in Providers |->
        CASE p = "chatgpt" -> 65
          [] p = "claude" -> 60
          [] p = "gemini" -> 62
          [] p = "perplexity" -> 68]

\* _simulate_all_platforms asking OpenAI once for each platform.
_simulate_all_platforms_per_platform(questions, company_name, kb, sim) ==
    [exc |-> FALSE, calls |-> 4,
     platforms |-> [p \in Providers |->
        [available |-> TRUE, simulated |-> TRUE,
         questions_tested |-> Len(Take(questions, 5)),
         mention_count |-> 0, mention_rate |-> Zero, results |-> <<>>,
         simulated_score |-> <<60>>]]]

\* calls: the chat-completion requests made (q['text'] of the first three
\* questions is read before the request).
_simulate_all_platforms(questions, company_name, kb, sim) ==
    LET sim_data == IF sim.kind = "raise" THEN SimDefaults ELSE sim.rate
        sim_score == IF sim.kind = "raise" THEN SimDefaultScores ELSE sim.score
        n == Len(Take(questions, 5))
        context == Take(questions, 3)
    IN  IF \E i \in 1..Len(context) : ~context[i].has_text
        THEN [exc |-> TRUE, calls |-> 0,
              platforms |-> [p \in Providers |-> _create_unavailable_result]]
        ELSE IF \E p \in Providers : sim_data[p].kind = "other"
        THEN [exc |-> TRUE, calls |-> 1,
              platforms |-> [p \in Providers |-> _create_unavailable_result]]
        ELSE [exc |-> FALSE, calls |-> 1,
              platforms |-> [p \in Providers |->
                LET mr == sim_data[p]
                IN  [available |-> TRUE, simulated |-> TRUE,
                     questions_tested |-> n,
                     mention_count |-> FInt(FMul(Fl(mr), n)),
                     mention_rate |-> Rat(mr.n, mr.d),
                     results |-> <<>>,
                     simulated_score |-> <<sim_score[p]>>]]]

_calculate_summary(platforms) ==
    LET available == SelectSeq(PlatformOrder, LAMBDA p : platforms[p].available)
        total_mentions ==
            SumSeq([i \in 1..Len(available) |-> platforms[available[i]].mention_count])
        total_questions ==
            SumSeq([i \in 1..Len(available) |-> platforms[available[i]].questions_tested])
    IN  [overall_mention_rate |-> IF total_questions > 0
                                  THEN Rat(total_mentions, total_questions)
                                  ELSE Zero,
         total_mentions |-> total_mentions,
         total_questions |-> total_questions,
         platforms_tested |-> Len(available)]

NoLlmResults ==
    [platforms |-> [p \in Providers |-> _create_unavailable_result],
     summary |-> [overall_mention_rate |-> Zero, total_mentions |-> 0,
                  total_questions |-> 0, platforms_tested |-> 0],
     platforms_available |-> <<>>, simulated |-> FALSE]

\* The requests a run of the tester has made: asked[p], the number of
\* questions sent to provider p one by one (always the first ones of the
\* list); simulate, the number of simulation requests sent to OpenAI.
NothingSent == [asked |-> [p \in Providers |-> 0], simulate |-> 0]

\* test_all_llms refusing to run when no provider is configured.
test_all_llms_requires_provider(questions, knowledge_base, keys, answers, sim) ==
    [exc |-> keys = {}, results |-> NoLlmResults, sent |-> NothingSent]

\* keys: the providers whose API key is configured (and whose client could
\* be built).  answers[p]: the outcomes of the requests sent to p.
test_all_llms(questions, knowledge_base, keys, answers, sim) ==
    LET kb == knowledge_base.knowledge_base
        company_name == kb.company_overview.name
        only_openai == keys = {"chatgpt"}
        simulated == _simulate_all_platforms(questions, company_name, kb, sim)
        tested == [p \in Providers |->
            IF p \in keys
            THEN CASE p = "chatgpt" ->
                        _test_openai(questions, company_name, kb, answers[p])
                   [] p = "claude" ->
                        _test_anthropic(questions, company_name, kb, answers[p])
                   [] p = "gemini" ->
                        _test_gemini(questions, company_name, kb, answers[p])
                   [] p = "perplexity" ->
                        _test_perplexity(questions, company_name, kb, answers[p])
            ELSE [exc |-> FALSE, platform |-> _create_unavailable_result]]
        platforms == IF only_openai THEN simulated.platforms
                     ELSE [p \in Providers |-> tested[p].platform]
        exc == \/ ~kb.overview_is_dict
               \/ IF only_openai THEN simulated.exc
                  ELSE \E p \in Providers : tested[p].exc
        \* the providers are tested in the order of PlatformOrder; the
        \* first exception ends the call
        reached(p) == \A i \in 1..4 :
                          PlatformOrder[i] = p =>
                              \A j \in 1..(i - 1) : ~tested[PlatformOrder[j]].exc
        sent == IF ~kb.overview_is_dict THEN NothingSent
                ELSE IF only_openai
                THEN [NothingSent EXCEPT !.simulate = simulated.calls]
                ELSE [NothingSent EXCEPT !.asked =
                         [p \in Providers |->
                             IF p \in keys /\ reached(p) THEN tested[p].asked
                             ELSE 0]]
    IN  IF exc THEN [exc |-> TRUE, results |-> NoLlmResults, sent |-> sent]
        ELSE [exc |-> FALSE, sent |-> sent,
              results |->
                [platforms |-> platforms,
                 summary |-> _calculate_summary(platforms),
                 platforms_available |->
                     IF only_openai THEN PlatformOrder
                     ELSE SelectSeq(PlatformOrder, LAMBDA p : p \in keys),
                 simulated |-> only_openai]]

(***************************************************************************)
(* Phase 6: the scoring engine (radius_scoring_engine.py).                 *)
(*                                                                         *)
(* llm_results is the record the tester returns: platforms maps each       *)
(* provider key to a PlatformResult, summary holds the overall figures.    *)
(***************************************************************************)
_score_to_grade(score) ==
    IF score >= 90 THEN "A+"
    ELSE IF score >= 80 THEN "A"
    ELSE IF score >= 70 THEN "B"
    ELSE IF score >= 60 THEN "C"
    ELSE IF score >= 50 THEN "D"
    ELSE "F"

\* The results the three per-result loops visit: every result without an
\* 'error' key of every available platform, in dict order.
RECURSIVE VisitedResults(_, _)
VisitedResults(platforms, order) ==
    IF order = <<>> THEN <<>>
    ELSE LET data == platforms[Head(order)]
         IN  (IF data.available
              THEN SelectSeq(data.results, LAMBDA r : ~r.error)
              ELSE <<>>) \o VisitedResults(platforms, Tail(order))

_calculate_accuracy(llm_results) ==
    LET visited == VisitedResults(llm_results.platforms, PlatformOrder)
        total_analyzed == Len(visited)
        accurate_mentions ==
            Len(SelectSeq(visited, LAMBDA r :
                r.analysis.mentioned /\ r.analysis.hallucination_risk = "low"))
        hallucination_risks ==
            Len(SelectSeq(visited, LAMBDA r :
                r.analysis.mentioned /\ r.analysis.hallucination_risk # "low"))
    IN  IF total_analyzed = 0
        THEN [score |-> 0, grade |-> "N/A",
              details |-> [accurate_mentions |-> 0, hallucination_risks |-> 0,
                           total_analyzed |-> 0, present |-> FALSE]]
        ELSE LET accuracy_rate == FDiv(accurate_mentions, total_analyzed)
                 score == FInt(FMul(accuracy_rate, 100))
             IN  [score |-> score, grade |-> _score_to_grade(score),
                  details |-> [accurate_mentions |-> accurate_mentions,
                               hallucination_risks |-> hallucination_risks,
                               total_analyzed |-> total_analyzed,
                               present |-> TRUE]]

\* max(rates) and min(rates) over the available platforms.
RatMax(S) == CHOOSE x \in S : \A y \in S : ~RatLess(x, y)

RatMin(S) == CHOOSE x \in S : \A y \in S : ~RatLess(y, x)

\* _calculate_consistency taking the rates of all four platforms.
_calculate_consistency_all_platforms(llm_results) ==
    LET mention_rate == llm_results.summary.overall_mention_rate
        score0 == FInt(FMul(Fl(mention_rate), 100))
        rates == {llm_results.platforms[p].mention_rate : p \in Providers}
        variance == FSub(Fl(RatMax(rates)), Fl(RatMin(rates)))
        score == Max2(0, score0 - FInt(FMul(variance, 20)))
    IN  [score |-> score, grade |-> _score_to_grade(score),
         details |-> [overall_mention_rate |-> mention_rate,
                      platforms_tested |-> llm_results.summary.platforms_tested]]

_calculate_consistency(llm_results) ==
    LET mention_rate == llm_results.summary.overall_mention_rate
        score0 == FInt(FMul(Fl(mention_rate), 100))
        available == {p \in Providers : llm_results.platforms[p].available}
        rates == {llm_results.platforms[p].mention_rate : p \in available}
        hi == RatMax(rates)
        lo == RatMin(rates)
        variance == FSub(Fl(hi), Fl(lo))
        consistency_penalty == FInt(FMul(variance, 20))
        score == IF available # {}
                 THEN Max2(0, score0 - consistency_penalty)
                 ELSE score0
    IN  [score |-> score, grade |-> _score_to_grade(score),
         details |-> [overall_mention_rate |-> mention_rate,
                      platforms_tested |-> llm_results.summary.platforms_tested]]

_calculate_safety(llm_results) ==
    LET visited == VisitedResults(llm_results.platforms, PlatformOrder)
        mentions == SelectSeq(visited, LAMBDA r : r.analysis.mentioned)
        total_mentions == Len(mentions)
        positive_mentions ==
            Len(SelectSeq(mentions, LAMBDA r : r.analysis.sentiment = "positive"))
        negative_mentions ==
            Len(SelectSeq(mentions, LAMBDA r : r.analysis.sentiment = "negative"))
        neutral_mentions == total_mentions - positive_mentions - negative_mentions
    IN  IF total_mentions = 0
        THEN [score |-> 50, grade |-> "C"]
        ELSE LET positive_rate == FDiv(positive_mentions, total_mentions)
                 negative_rate == FDiv(negative_mentions, total_mentions)
                 gain == FAdd(FMul(positive_rate, 100),
                              FMul(FDiv(neutral_mentions, total_mentions), 70))
                 loss == FMul(negative_rate, 50)
                 \* int() truncates toward zero
                 raw == IF FLess(gain, loss) THEN -FInt(FSub(loss, gain))
                        ELSE FInt(FSub(gain, loss))
                 score == Max2(0, Min2(100, raw))
             IN  [score |-> score, grade |-> _score_to_grade(score)]

_calculate_readability(llm_results) ==
    LET visited == VisitedResults(llm_results.platforms, PlatformOrder)
        total_responses == Len(visited)
        recommendation_count ==
            Len(SelectSeq(visited, LAMBDA r : r.analysis.contains_recommendation))
        length_sum ==
            SumSeq([i \in 1..Len(visited) |-> visited[i].analysis.response_length])
    IN  IF total_responses = 0
        THEN [score |-> 50, grade |-> "C"]
        ELSE LET \* avg_response_length > 500, > 300; recommendation_rate > 0.5
                 s1 == 50 + (IF length_sum > 500 * total_responses THEN 20 ELSE 0)
                 s2 == s1 + (IF length_sum > 300 * total_responses THEN 10 ELSE 0)
                 s3 == s2 + (IF 2 * recommendation_count > total_responses
                             THEN 20 ELSE 0)
                 score == Min2(100, s3)
             IN  [score |-> score, grade |-> _score_to_grade(score)]

_calculate_platform_scores(llm_results) ==
    [p \in Providers |->
        LET data == llm_results.platforms[p]
            score == FInt(FMul(Fl(data.mention_rate), 100))
        IN  IF ~data.available
            THEN [score |-> 0, grade |-> "N/A", available |-> FALSE]
            ELSE [score |-> score, grade |-> _score_to_grade(score),
                  available |-> TRUE]]

weights ==
    [accuracy |-> FDiv(30, 100), consistency |-> FDiv(35, 100),
     safety |-> FDiv(20, 100), readability |-> FDiv(15, 100)]

\* The weighted sum of the four scores, then int().
\* The same sum with the four dimensions weighted equally.
_calculate_overall_equal_weights(accuracy, consistency, safety, readability) ==
    LET quarter == FDiv(25, 100)
        weighted_score ==
            FAdd(FAdd(FAdd(FMul(quarter, accuracy.score),
                           FMul(quarter, consistency.score)),
                      FMul(quarter, safety.score)),
                 FMul(quarter, readability.score))
        score == FInt(weighted_score)
    IN  [score |-> score, grade |-> _score_to_grade(score)]

_calculate_overall(accuracy, consistency, safety, readability) ==
    LET weighted_score ==
            FAdd(FAdd(FAdd(FMul(weights.accuracy, accuracy.score),
                           FMul(weights.consistency, consistency.score)),
                      FMul(weights.safety, safety.score)),
                 FMul(weights.readability, readability.score))
        score == FInt(weighted_score)
    IN  [score |-> score, grade |-> _score_to_grade(score)]

\* The titles of the recommendations, in the order they are appended.
_generate_recommendations(accuracy, consistency, safety, readability, llm_results) ==
    LET summarised == SelectSeq(PlatformOrder,
                          LAMBDA p : llm_results.platforms[p].available)
        low == SelectSeq(summarised, LAMBDA p :
                   RatLess(llm_results.platforms[p].mention_rate, Rat(3, 10)))
    IN  (IF consistency.score < 50 THEN <<"Improve AI Visibility">> ELSE <<>>)
        \o [i \in 1..Len(low) |-> low[i]]
        \o (IF safety.score < 60 THEN <<"Address Sentiment Concerns">> ELSE <<>>)
        \o (IF accuracy.score < 70 THEN <<"Improve Information Accuracy">> ELSE <<>>)

calculate_scores(knowledge_base, llm_results) ==
    LET accuracy_score == _calculate_accuracy(llm_results)
        consistency_score == _calculate_consistency(llm_results)
        safety_score == _calculate_safety(llm_results)
        readability_score == _calculate_readability(llm_results)
    IN  [company_name |-> knowledge_base.knowledge_base.company_overview.name,
         overall_score |-> _calculate_overall(accuracy_score, consistency_score,
                                              safety_score, readability_score),
         dimension_scores |-> [accuracy |-> accuracy_score,
                               consistency |-> consistency_score,
                               safety |-> safety_score,
                               readability |-> readability_score],
         platform_scores |-> _calculate_platform_scores(llm_results),
         recommendations |-> _generate_recommendations(accuracy_score,
                                 consistency_score, safety_score,
                                 readability_score, llm_results)]

(***************************************************************************)
(* The orchestrator (radius_engine.py): run_full_analysis as the sequence  *)
(* of its stages.  Each action is one stage together with the lines of     *)
(* run_full_analysis that follow it up to the next stage; an exception     *)
(* that leaves a stage is caught by the except clause of the function,     *)
(* which sets 'error' and overallScore 0 and returns.                      *)
(***************************************************************************)
VARIABLES
    pc,             \* the stage run_full_analysis is about to start
    site,           \* what the target domain serves
    run_llm_tests,  \* the argument of the call
    keys,           \* providers whose API key is configured
    db,             \* TRUE when a database handle was passed
    crawl_data, kb_result, questions, llm_results,   \* the stage outputs
    result,         \* the record being built and returned
    calls,          \* the stages invoked so far, in order
    stored,         \* TRUE once insert_one has stored the record
    refined,        \* the knowledge bases of two refinements, side by side
    sent            \* the requests the tester has made in this run

\* The server around the orchestrator (server.py).
VARIABLES
    radius_analyses,   \* the collection db.radius_analyses, in insertion order
    runs,              \* the calls of run_full_analysis so far, as returned
    replies,           \* the GET requests so far, as answered
    _analyses_cache,   \* the in-memory dict, in the order of its keys
    tick,              \* the number of _cache_put calls so far
    last_call          \* the latest cache call with what it saw and returned

serverVars == <<radius_analyses, runs, replies, _analyses_cache, tick, last_call>>

\* The crawler called on its own.
VARIABLES
    max_pages,         \* the argument of crawl_comprehensive
    requested          \* the priority paths it has requested, in order

VARIABLES
    _knowledge_store,  \* company id -> <<>> (no key) or <<the knowledge base>>
    task               \* the background generate_from_website task

knowledgeVars == <<_knowledge_store, task>>

sideVars == <<max_pages, requested, knowledgeVars>>

vars == <<pc, site, run_llm_tests, keys, db, crawl_data, kb_result, questions,
          llm_results, result, calls, stored, refined, sent, serverVars,
          sideVars>>

\* ---- the inputs the model draws from -----------------------------------
Sites ==
    {[domain |-> "example.com", served |-> 1..k, len |-> l, title |-> t] :
        k \in 0..MaxServed, l \in {100, 2600}, t \in {"", "Acme"}}

KbOutcomes ==
    {[kind |-> "raise", kb |-> KbContent("", "", "", TRUE)],
     [kind |-> "json", kb |-> KbContent("Acme", "2015", "CRM software", TRUE)],
     [kind |-> "json", kb |-> KbContent("", "", "", FALSE)]}

QIds == <<"q1", "q2", "q3", "q4", "q5", "q6", "q7">>

QuestionShapes == {"discovery", "trust", "no_text", "no_id"}

GptQuestion(i, shape) ==
    Question(IF shape = "no_id" THEN "" ELSE QIds[i],
             IF shape = "no_text" THEN <<>> ELSE <<"generated question", i>>,
             IF shape = "trust" THEN "TRUST"
             ELSE IF shape = "no_category" THEN Missing ELSE "DISCOVERY",
             shape # "no_id", shape # "no_text")

GptQuestionLists ==
    UNION {{[i \in 1..n |-> GptQuestion(i, shapes[i])] :
               shapes \in [1..n -> QuestionShapes]} : n \in 0..MaxQ}

QuestionOutcomes ==
    {[kind |-> "raise", questions |-> <<>>]}
    \cup {[kind |-> "json", questions |-> qs] : qs \in GptQuestionLists}

Answers ==
    {RequestError,
     Response(FALSE, 0, 0, FALSE, 200, FALSE),
     Response(TRUE, 2, 0, FALSE, 600, TRUE),
     Response(TRUE, 0, 1, TRUE, 400, FALSE),
     Response(TRUE, 1, 1, FALSE, 350, TRUE)}

SimRates == {SimAbsent, SimNum(0, 1), SimNum(4, 10), SimNum(1, 1),
             SimNum(40, 1), SimOther}

\* The simulation request, or json.loads of its answer, raised.
SimFailed == [kind |-> "raise", rate |-> SimDefaults, score |-> SimDefaultScores]

SimOutcomes ==
    {SimFailed}
    \cup {[kind |-> "json",
           rate |-> [p \in Providers |-> IF p = "chatgpt" THEN r1 ELSE r2],
           score |-> [p \in Providers |->
                        IF (IF p = "chatgpt" THEN r1 ELSE r2).kind = "absent"
                        THEN 60 ELSE 72]] :
             r1 \in SimRates, r2 \in SimRates}

NoCrawl == crawl_comprehensive(
               [domain |-> "example.com", served |-> {}, len |-> 0, title |-> ""], 0)

NoKb == _create_fallback_kb(NoCrawl)

NoQuestions == [company_name |-> "", questions |-> <<>>,
                questions_by_category |-> [cat \in Categories |-> <<>>],
                metadata |-> [total_questions |-> 0, source |-> "none"]]

NoScores == [overall_score |-> [score |-> 0, grade |-> ""],
             dimension_scores |-> <<>>, platform_scores |-> <<>>,
             recommendations |-> <<>>]

NoRefined == [a |-> NoCrawl, b |-> NoCrawl, same_path |-> TRUE,
              kb_a |-> NoKb, kb_b |-> NoKb, done |-> FALSE]

NewResult ==
    [phases |-> {}, llm_tests |-> "absent", has_knowledgeBase |-> FALSE,
     has_brandInfo |-> FALSE, brand_name |-> "", has_questions |-> FALSE,
     has_scores |-> FALSE, scores |-> NoScores, has_overallScore |-> FALSE,
     overallScore |-> 0, has_accuracyCheck |-> FALSE, error |-> FALSE]

\* except Exception as e: result['error'] = str(e); result['overallScore'] = 0
Caught(r) == [r EXCEPT !.error = TRUE, !.has_overallScore = TRUE,
                       !.overallScore = 0]

\* No call of the crawler on its own.
\* The company ids of the knowledge store: the analysis id /api/analyze
\* generated, and the endpoints' default.
KbCompanies == {"analysis_1", "default"}

KnowledgeIdle ==
    /\ _knowledge_store = [c \in KbCompanies |-> <<>>]
    /\ task = "none"

SideIdle ==
    /\ max_pages = 10
    /\ requested = <<>>
    /\ KnowledgeIdle

\* The server before any request.
ServerIdle ==
    /\ radius_analyses = <<>>
    /\ runs = <<>>
    /\ replies = <<>>
    /\ _analyses_cache = <<>>
    /\ tick = 0
    /\ last_call = [op |-> "none"]

Init ==
    /\ pc = "crawl"
    /\ site \in Sites
    /\ run_llm_tests \in BOOLEAN
    /\ keys \in {{}, {"chatgpt"}, {"claude"}}
    /\ db \in BOOLEAN
    /\ crawl_data = NoCrawl
    /\ kb_result = NoKb
    /\ questions = NoQuestions
    /\ llm_results = NoLlmResults
    /\ result = NewResult
    /\ calls = <<>>
    /\ stored = FALSE
    /\ refined = NoRefined
    /\ sent = NothingSent
    /\ ServerIdle
    /\ SideIdle

\* PHASE 1
Crawl ==
    /\ pc = "crawl"
    /\ crawl_data' = crawl_comprehensive(site, 10)
    /\ result' = [result EXCEPT !.phases = @ \cup {"crawl"}]
    /\ calls' = Append(calls, "crawl")
    /\ pc' = "refine"
    /\ UNCHANGED <<site, run_llm_tests, keys, db, kb_result, questions,
                   llm_results, stored, refined>>
    /\ UNCHANGED <<sent, serverVars, sideVars>>

\* PHASE 2 & 3, then brandInfo: overview.get(..) raises AttributeError when
\* 'company_overview' is not a dict.
Refine ==
    /\ pc = "refine"
    /\ \E gpt \in IF "chatgpt" \in keys THEN KbOutcomes
                  ELSE {CHOOSE g \in KbOutcomes : g.kind = "raise"} :
         LET kb == refine_and_create_kb(crawl_data, "chatgpt" \in keys, gpt)
             r1 == [result EXCEPT !.phases = @ \cup {"knowledge_base"},
                                  !.has_knowledgeBase = TRUE]
         IN  /\ kb_result' = kb
             /\ IF kb.knowledge_base.overview_is_dict
                THEN /\ result' = [r1 EXCEPT !.has_brandInfo = TRUE,
                           !.brand_name = kb.knowledge_base.company_overview.name]
                     /\ pc' = "questions"
                ELSE /\ result' = Caught(r1)
                     /\ pc' = "done"
    /\ calls' = Append(calls, "refine")
    /\ UNCHANGED <<site, run_llm_tests, keys, db, crawl_data, questions,
                   llm_results, stored, refined>>
    /\ UNCHANGED <<sent, serverVars, sideVars>>

\* PHASE 4
GenerateQuestions ==
    /\ pc = "questions"
    /\ \E gpt \in IF "chatgpt" \in keys THEN QuestionOutcomes
                  ELSE {[kind |-> "raise", questions |-> <<>>]} :
         questions' = generate_questions(kb_result, "chatgpt" \in keys, gpt)
    /\ result' = [result EXCEPT !.phases = @ \cup {"questions"},
                                !.has_questions = TRUE]
    /\ calls' = Append(calls, "questions")
    /\ pc' = "llm_tests"
    /\ UNCHANGED <<site, run_llm_tests, keys, db, crawl_data, kb_result,
                   llm_results, stored, refined>>
    /\ UNCHANGED <<sent, serverVars, sideVars>>

\* PHASE 5, run_llm_tests true
LlmTests ==
    /\ pc = "llm_tests"
    /\ run_llm_tests
    /\ LET n == Len(Take(questions.questions, 5))
       IN  \E answers \in IF keys = {"chatgpt"} THEN {<<>>}
                          ELSE [keys -> [1..n -> Answers]],
              sim \in IF keys = {"chatgpt"} THEN SimOutcomes
                      ELSE {SimFailed} :
             LET r == test_all_llms(questions.questions, kb_result, keys,
                                    answers, sim)
             IN  IF r.exc
                 THEN /\ result' = Caught(result)
                      /\ pc' = "done"
                      /\ sent' = r.sent
                      /\ UNCHANGED llm_results
                 ELSE /\ llm_results' = r.results
                      /\ result' = [result EXCEPT
                                      !.phases = @ \cup {"llm_tests"},
                                      !.llm_tests = "results"]
                      /\ sent' = r.sent
                      /\ pc' = "scoring"
    /\ calls' = Append(calls, "llm_tests")
    /\ UNCHANGED <<site, run_llm_tests, keys, db, crawl_data, kb_result,
                   questions, stored, refined>>
    /\ UNCHANGED <<serverVars, sideVars>>

\* PHASE 5, run_llm_tests false
SkipLlmTests ==
    /\ pc = "llm_tests"
    /\ ~run_llm_tests
    /\ result' = [result EXCEPT !.phases = @ \cup {"llm_tests"},
                                !.llm_tests = "skipped"]
    /\ pc' = "scoring"
    /\ UNCHANGED <<site, run_llm_tests, keys, db, crawl_data, kb_result,
                   questions, llm_results, calls, stored, refined>>
    /\ UNCHANGED <<sent, serverVars, sideVars>>

\* BasicScores with the confidence taken as a percentage.
BasicScores_percent(knowledge_base) ==
    LET kb_confidence == knowledge_base.metadata.confidence_score
        overallScore == FInt(FMul(Fl(kb_confidence), 100))
    IN  [overall_score |-> [score |-> overallScore,
                            grade |-> IF overallScore >= 50 THEN "C" ELSE "D"],
         dimension_scores |-> <<>>, platform_scores |-> <<>>,
         recommendations |-> <<>>]

\* The score record built when no llm_results exist.
BasicScores(knowledge_base) ==
    LET kb_confidence == knowledge_base.metadata.confidence_score
        overallScore == FInt(FMul(Fl(kb_confidence), 60))
    IN  [overall_score |-> [score |-> overallScore,
                            grade |-> IF overallScore >= 50 THEN "C" ELSE "D"],
         dimension_scores |-> <<>>, platform_scores |-> <<>>,
         recommendations |-> <<>>]

\* PHASE 6, then the accuracyCheck block
Scoring ==
    /\ pc = "scoring"
    /\ LET with_llm == result.llm_tests = "results"
           scores == IF with_llm THEN calculate_scores(kb_result, llm_results)
                     ELSE BasicScores(kb_result)
       IN  result' = [result EXCEPT
                        !.phases = IF with_llm THEN @ \cup {"scores"} ELSE @,
                        !.has_scores = TRUE,
                        !.scores = scores,
                        !.has_overallScore = TRUE,
                        !.overallScore = scores.overall_score.score,
                        !.has_accuracyCheck = TRUE]
    /\ calls' = Append(calls, "scoring")
    /\ pc' = "persist"
    /\ UNCHANGED <<site, run_llm_tests, keys, db, crawl_data, kb_result,
                   questions, llm_results, stored, refined>>
    /\ UNCHANGED <<sent, serverVars, sideVars>>

\* insert_one, whose failure is printed and dropped
Persist ==
    /\ pc = "persist"
    /\ db
    /\ \E ok \in BOOLEAN : stored' = ok
    /\ calls' = Append(calls, "persist")
    /\ pc' = "done"
    /\ UNCHANGED <<site, run_llm_tests, keys, db, crawl_data, kb_result,
                   questions, llm_results, result, refined>>
    /\ UNCHANGED <<sent, serverVars, sideVars>>

\* db is None
Return ==
    /\ pc = "persist"
    /\ ~db
    /\ pc' = "done"
    /\ UNCHANGED <<site, run_llm_tests, keys, db, crawl_data, kb_result,
                   questions, llm_results, result, calls, stored, refined>>
    /\ UNCHANGED <<sent, serverVars, sideVars>>

Next == Crawl \/ Refine \/ GenerateQuestions \/ LlmTests \/ SkipLlmTests
        \/ Scoring \/ Persist \/ Return

Spec == Init /\ [][Next]_vars

(***************************************************************************)
(* The tester and the scoring engine on their own: run_full_analysis from  *)
(* phase 5 on, for every key configuration of the set below, started in    *)
(* the states phases 1 to 4 leave behind.                                  *)
(***************************************************************************)
TesterKeys == {{}, {"chatgpt"}, {"claude"}, {"perplexity"},
               {"chatgpt", "claude"}, {"gemini", "perplexity"}}

AfterQuestions(kb) ==
    [NewResult EXCEPT !.phases = {"crawl", "knowledge_base", "questions"},
                      !.has_knowledgeBase = TRUE, !.has_brandInfo = TRUE,
                      !.brand_name = kb.knowledge_base.company_overview.name,
                      !.has_questions = TRUE]

InitScore ==
    /\ pc = "llm_tests"
    /\ run_llm_tests = TRUE
    /\ db = FALSE
    /\ site \in {s \in Sites : /\ s.served \in {{}, 1..MaxServed}
                               /\ s.len = 2600 /\ s.title = "Acme"}
    /\ keys \in TesterKeys
    /\ crawl_data = crawl_comprehensive(site, 10)
    /\ \E gpt \in KbOutcomes :
          /\ "chatgpt" \in keys \/ gpt.kind = "raise"
          /\ gpt.kb.overview_is_dict
          /\ kb_result = refine_and_create_kb(crawl_data, "chatgpt" \in keys, gpt)
    /\ \E gpt \in QuestionOutcomes :
          /\ "chatgpt" \in keys \/ gpt.kind = "raise"
          /\ questions = generate_questions(kb_result, "chatgpt" \in keys, gpt)
    /\ llm_results = NoLlmResults
    /\ result = AfterQuestions(kb_result)
    /\ calls = <<"crawl", "refine", "questions">>
    /\ stored = FALSE
    /\ refined = NoRefined
    /\ sent = NothingSent
    /\ ServerIdle
    /\ SideIdle

NextScore == LlmTests \/ Scoring \/ Return

SpecScore == InitScore /\ [][NextScore]_vars

\* The same with only OPENAI_API_KEY configured: simulated mode.
InitSimulated == InitScore /\ keys = {"chatgpt"}

SpecSimulated == InitSimulated /\ [][NextScore]_vars

(***************************************************************************)
(* The refiner on two crawl results under one key configuration.           *)
(***************************************************************************)
InitKB ==
    /\ pc = "refine_pair"
    /\ site \in Sites
    /\ run_llm_tests = FALSE
    /\ keys \in {{}, {"chatgpt"}}
    /\ db = FALSE
    /\ crawl_data = NoCrawl
    /\ kb_result = NoKb
    /\ questions = NoQuestions
    /\ llm_results = NoLlmResults
    /\ result = NewResult
    /\ calls = <<>>
    /\ stored = FALSE
    /\ \E other \in Sites :
          refined = [NoRefined EXCEPT !.a = crawl_comprehensive(site, 10),
                                      !.b = crawl_comprehensive(other, 10)]
    /\ sent = NothingSent
    /\ ServerIdle
    /\ SideIdle

RefinePair ==
    /\ pc = "refine_pair"
    /\ \E ga \in KbOutcomes, gb \in KbOutcomes :
          /\ "chatgpt" \in keys \/ (ga.kind = "raise" /\ gb.kind = "raise")
          /\ refined' = [refined EXCEPT
                !.kb_a = refine_and_create_kb(refined.a, "chatgpt" \in keys, ga),
                !.kb_b = refine_and_create_kb(refined.b, "chatgpt" \in keys, gb),
                !.same_path = (ga.kind = gb.kind),
                !.done = TRUE]
    /\ pc' = "done"
    /\ UNCHANGED <<site, run_llm_tests, keys, db, crawl_data, kb_result,
                   questions, llm_results, result, calls, stored>>
    /\ UNCHANGED <<sent, serverVars, sideVars>>

NextKB == RefinePair

SpecKB == InitKB /\ [][NextKB]_vars

(***************************************************************************)
(* run_full_analysis as one call, and the server around it (server.py):    *)
(* the collection db.radius_analyses, the endpoints that read it, and      *)
(* get_test_question.                                                      *)
(***************************************************************************)
MaxRuns == 2

MaxRequests == 3

MaxSet == 6

\* The whole of run_full_analysis up to the accuracyCheck block, for one
\* outcome of every request it makes.  finished: the try block ran to its
\* end (the record is offered to insert_one); has_questions: the record has
\* the key 'questions'.
run_full_analysis(s, tests, ks, gptKb, gptQ, answers, sim) ==
    LET crawl == crawl_comprehensive(s, 10)
        kb == refine_and_create_kb(crawl, "chatgpt" \in ks, gptKb)
        r2 == [NewResult EXCEPT !.phases = {"crawl", "knowledge_base"},
                                !.has_knowledgeBase = TRUE]
        qs == generate_questions(kb, "chatgpt" \in ks, gptQ)
        r4 == [r2 EXCEPT !.has_brandInfo = TRUE,
                         !.brand_name = kb.knowledge_base.company_overview.name,
                         !.phases = @ \cup {"questions"},
                         !.has_questions = TRUE]
        t == test_all_llms(qs.questions, kb, ks, answers, sim)
        r5 == [r4 EXCEPT !.phases = @ \cup {"llm_tests"},
                         !.llm_tests = IF tests THEN "results" ELSE "skipped"]
        scores == IF tests THEN calculate_scores(kb, t.results)
                  ELSE BasicScores(kb)
        r6 == [r5 EXCEPT !.phases = IF tests THEN @ \cup {"scores"} ELSE @,
                         !.has_scores = TRUE,
                         !.scores = scores,
                         !.has_overallScore = TRUE,
                         !.overallScore = scores.overall_score.score,
                         !.has_accuracyCheck = TRUE]
    IN  IF ~kb.knowledge_base.overview_is_dict
        THEN [result |-> Caught(r2), questions |-> <<>>, sent |-> NothingSent,
              calls |-> <<"crawl", "refine">>, finished |-> FALSE]
        ELSE IF tests /\ t.exc
        THEN [result |-> Caught(r4), questions |-> qs.questions, sent |-> t.sent,
              calls |-> <<"crawl", "refine", "questions", "llm_tests">>,
              finished |-> FALSE]
        ELSE [result |-> r6, questions |-> qs.questions,
              sent |-> IF tests THEN t.sent ELSE NothingSent,
              calls |-> IF tests
                        THEN <<"crawl", "refine", "questions", "llm_tests", "scoring">>
                        ELSE <<"crawl", "refine", "questions", "scoring">>,
              finished |-> TRUE]

\* The reply when no question is returned.
NoQuestion(kind, platform) ==
    [kind |-> kind, question |-> <<>>, question_id |-> "", category |-> "",
     platform |-> platform]

\* get_test_question returning the first question whatever its category.
get_test_question_first(analysis_result, platform) ==
    LET qs == IF analysis_result.has_questions THEN analysis_result.questions
              ELSE <<>>
    IN  IF qs = <<>> THEN NoQuestion("none", platform)
        ELSE IF ~qs[1].has_text \/ ~qs[1].has_id
        THEN NoQuestion("raise", platform)
        ELSE [kind |-> "question", question |-> qs[1].text,
              question_id |-> qs[1].id,
              category |-> IF qs[1].category = Missing THEN "DISCOVERY"
                           ELSE qs[1].category,
              platform |-> platform]

\* get_test_question writing a question for the platform when it is called.
get_test_question_regenerating(analysis_result, platform) ==
    [kind |-> "question", question |-> <<"generated question", platform>>,
     question_id |-> "q1", category |-> "DISCOVERY", platform |-> platform]

\* kind "none": None is returned; "raise": q['text'] or q['id'] raised
\* KeyError; "question": the dict is returned.
get_test_question(analysis_result, platform) ==
    LET qs == IF analysis_result.has_questions THEN analysis_result.questions
              ELSE <<>>
        discovery == {i \in 1..Len(qs) : qs[i].category = "DISCOVERY"}
        q == IF discovery # {}
             THEN qs[CHOOSE i \in discovery : \A j \in discovery : i <= j]
             ELSE qs[1]
    IN  IF qs = <<>> THEN NoQuestion("none", platform)
        ELSE IF ~q.has_text \/ ~q.has_id THEN NoQuestion("raise", platform)
        ELSE [kind |-> "question", question |-> q.text, question_id |-> q.id,
              category |-> IF q.category = Missing THEN "DISCOVERY"
                           ELSE q.category,
              platform |-> platform]

\* find_one({"analysisId": analysis_id}): the documents that match, first
\* one first.
find_one(analysis_id) ==
    SelectSeq(radius_analyses, LAMBDA d : d.analysisId = analysis_id)

\* ---- what the server is asked ---------------------------------------------
\* The ids run_full_analysis is given by its caller; None: no id is given.
None == <<"None">>

GivenIds == {<<"a1">>}

\* The id run_full_analysis makes up for its n-th call: the time and a
\* random part, taken to differ from every id made up or given before.
NewId(n) == <<"radius", n>>

ServerSite == [domain |-> "example.com", served |-> 1..MaxServed, len |-> 2600,
               title |-> "Acme"]

\* A generated list of n questions, all of category TRUST but the last,
\* which has the given shape.
EndingIn(n, shape) ==
    [i \in 1..n |-> GptQuestion(i, IF i = n THEN shape ELSE "trust")]

\* What the question request of a run may return: every outcome below for
\* the first run the server makes, a failed request for the runs after it.
LaterQuestionOutcomes ==
    {[kind |-> "raise", questions |-> <<>>]}

ServerQuestionOutcomes ==
    LaterQuestionOutcomes
    \cup {[kind |-> "json", questions |-> <<>>]}
    \cup {[kind |-> "json", questions |-> EndingIn(n, shape)] :
             n \in {1, MaxSet}, shape \in {"discovery", "trust"}}
    \cup {[kind |-> "json", questions |-> EndingIn(1, shape)] :
             shape \in {"no_text", "no_category"}}
    \cup {[kind |-> "json",
           questions |-> <<GptQuestion(1, "discovery"), GptQuestion(2, "trust"),
                           GptQuestion(3, "discovery")>>]}

PlatformNames == {"chatgpt", "perplexity"}

\* ---- the requests -----------------------------------------------------------
InitServer ==
    /\ pc = "serve"
    /\ site = ServerSite
    /\ run_llm_tests = TRUE
    /\ keys \in {{"chatgpt"}, {"chatgpt", "claude"}}
    /\ db = TRUE
    /\ crawl_data = NoCrawl
    /\ kb_result = NoKb
    /\ questions = NoQuestions
    /\ llm_results = NoLlmResults
    /\ result = NewResult
    /\ calls = <<>>
    /\ stored = FALSE
    /\ refined = NoRefined
    /\ sent = NothingSent
    /\ ServerIdle
    /\ SideIdle

stageVars == <<pc, site, run_llm_tests, keys, db, crawl_data, kb_result,
               questions, llm_results, result, calls, stored, refined>>

Served == Len(runs) + Len(replies)

\* One call of run_full_analysis(url, analysis_id, run_llm_tests, db).
\* The server passes its database handle; store: "up", or "down" (insert_one
\* raises because the store cannot be reached).  The
\* document has _id = analysis_id: insert_one also raises when a document
\* with that _id is in the collection.
RunFullAnalysis ==
    /\ pc = "serve"
    /\ Len(runs) < MaxRuns
    /\ Served < MaxRequests
    /\ \E given \in GivenIds \cup {None} \cup {runs[i].analysisId : i \in 1..Len(runs)},
          tests \in BOOLEAN,
          store \in {"up", "down"},
          gptQ \in IF runs = <<>> THEN ServerQuestionOutcomes
                   ELSE LaterQuestionOutcomes :
         LET analysis_id == IF given = None THEN NewId(Len(runs) + 1) ELSE given
             gptKb == [kind |-> "json",
                       kb |-> KbContent("Acme", "2015", "CRM software", TRUE)]
             answer == Response(TRUE, 2, 0, FALSE, 600, TRUE)
             answers == [p \in keys |-> [i \in 1..5 |-> answer]]
         IN  \E out \in {run_full_analysis(site, tests, keys, gptKb, gptQ,
                                           answers, SimFailed)} :
               LET inserted == /\ out.finished
                               /\ store = "up"
                               /\ \A i \in 1..Len(radius_analyses) :
                                     radius_analyses[i]._id # analysis_id
                   doc == [_id |-> analysis_id, analysisId |-> analysis_id,
                           has_questions |-> out.result.has_questions,
                           questions |-> out.questions,
                           overallScore |-> out.result.overallScore,
                           run |-> Len(runs) + 1]
               IN  /\ radius_analyses' =
                          IF inserted THEN Append(radius_analyses, doc)
                          ELSE radius_analyses
                   /\ runs' = Append(runs,
                         [analysisId |-> analysis_id, given |-> given # None,
                          tests |-> tests, store |-> store,
                          inserted |-> inserted,
                          error |-> out.result.error,
                          overallScore |-> out.result.overallScore,
                          has_questions |-> out.result.has_questions,
                          questions |-> out.questions,
                          calls |-> out.calls, sent |-> out.sent])
                   /\ sent' = out.sent
    /\ UNCHANGED <<stageVars, replies, _analyses_cache, tick, last_call,
                   sideVars>>

\* GET /api/radius/test-question/{analysis_id}/{platform}.  up: find_one
\* answers (it raises otherwise: status 500).
GetTestQuestion ==
    /\ pc = "serve"
    /\ Served < MaxRequests
    /\ \E i \in 1..Len(runs), platform \in PlatformNames, up \in BOOLEAN :
         LET analysis_id == runs[i].analysisId
             found == find_one(analysis_id)
             q == get_test_question(found[1], platform)
             status == IF ~up THEN 500
                       ELSE IF found = <<>> THEN 404
                       ELSE IF q.kind = "none" THEN 404
                       ELSE IF q.kind = "raise" THEN 500
                       ELSE 200
         IN  replies' = Append(replies,
                 [endpoint |-> "test-question", analysis_id |-> analysis_id,
                  status |-> status,
                  body |-> IF status = 200 THEN q
                           ELSE NoQuestion("none", platform)])
    /\ UNCHANGED <<stageVars, sent, radius_analyses, runs, _analyses_cache,
                   tick, last_call, sideVars>>

\* GET /api/radius/analysis/{analysis_id}: the stored document without its
\* _id.  up: find_one answers (it raises otherwise: status 500).  The handler
\* reads db.radius_analyses only.
GetRadiusAnalysis ==
    /\ pc = "serve"
    /\ Served < MaxRequests
    /\ \E i \in 1..Len(runs), up \in BOOLEAN :
         LET analysis_id == runs[i].analysisId
             found == find_one(analysis_id)
             status == IF ~up THEN 500
                       ELSE IF found = <<>> THEN 404
                       ELSE 200
         IN  replies' = Append(replies,
                 [endpoint |-> "analysis", analysis_id |-> analysis_id,
                  status |-> status,
                  body |-> IF status = 200
                           THEN [analysisId |-> found[1].analysisId,
                                 overallScore |-> found[1].overallScore,
                                 questions |-> found[1].questions,
                                 run |-> found[1].run]
                           ELSE [analysisId |-> None, overallScore |-> 0,
                                 questions |-> <<>>, run |-> 0]])
    /\ UNCHANGED <<stageVars, sent, radius_analyses, runs, _analyses_cache,
                   tick, last_call, sideVars>>

\* _cache_get(analysis_id): _analyses_cache.get(analysis_id)
_cache_get(analysis_id) ==
    LET hits == SelectSeq(_analyses_cache, LAMBDA e : e.id = analysis_id)
    IN  IF hits = <<>> THEN None ELSE <<hits[1].data>>

NextServer == RunFullAnalysis \/ GetTestQuestion \/ GetRadiusAnalysis

SpecServer == InitServer /\ [][NextServer]_vars

(***************************************************************************)
(* The in-memory analysis cache of server.py on its own.  _analyses_cache  *)
(* is the dict as the sequence of its items in key order, which for a      *)
(* Python dict is the order in which the keys present were inserted; each  *)
(* item carries the number of the _cache_put call that inserted its key.   *)
(***************************************************************************)
_CACHE_MAX == 200

MaxCalls == 4

AnalysisId(n) == <<"analysis", n>>

CacheData == {[overallScore |-> 40], [overallScore |-> 70]}

\* The cache after _cache_put(AnalysisId(1), d) ... _cache_put(AnalysisId(n), d).
Filled(n) ==
    [i \in 1..n |-> [id |-> AnalysisId(i), data |-> [overallScore |-> 40],
                     stamp |-> i]]

\* The ids the calls are made with: the two oldest of a filled cache and one
\* that is not in it.
AskedIds == {AnalysisId(1), AnalysisId(2), AnalysisId(_CACHE_MAX + 1)}

\* _cache_put deleting the newest item of a full cache.
_cache_put_newest(analysis_id, data) ==
    LET kept == IF Len(_analyses_cache) >= _CACHE_MAX
                THEN SubSeq(_analyses_cache, 1, Len(_analyses_cache) - 1)
                ELSE _analyses_cache
    IN  IF \E i \in 1..Len(kept) : kept[i].id = analysis_id
        THEN [i \in 1..Len(kept) |->
                 IF kept[i].id = analysis_id
                 THEN [kept[i] EXCEPT !.data = data] ELSE kept[i]]
        ELSE Append(kept, [id |-> analysis_id, data |-> data,
                           stamp |-> tick + 1])

\* _cache_put(analysis_id, data): the dict afterwards.  A full dict loses its
\* first key, next(iter(...)), whether or not analysis_id is present; an
\* assignment to a key that is present keeps the key's place.
_cache_put(analysis_id, data) ==
    LET kept == IF Len(_analyses_cache) >= _CACHE_MAX
                THEN Tail(_analyses_cache)
                ELSE _analyses_cache
    IN  IF \E i \in 1..Len(kept) : kept[i].id = analysis_id
        THEN [i \in 1..Len(kept) |->
                 IF kept[i].id = analysis_id
                 THEN [kept[i] EXCEPT !.data = data] ELSE kept[i]]
        ELSE Append(kept, [id |-> analysis_id, data |-> data,
                           stamp |-> tick + 1])

InitCache ==
    /\ pc = "cache"
    /\ site = ServerSite
    /\ run_llm_tests = FALSE
    /\ keys = {}
    /\ db = FALSE
    /\ crawl_data = NoCrawl
    /\ kb_result = NoKb
    /\ questions = NoQuestions
    /\ llm_results = NoLlmResults
    /\ result = NewResult
    /\ calls = <<>>
    /\ stored = FALSE
    /\ refined = NoRefined
    /\ sent = NothingSent
    /\ radius_analyses = <<>>
    /\ runs = <<>>
    /\ replies = <<>>
    /\ \E n \in {0, _CACHE_MAX - 1, _CACHE_MAX} :
          /\ _analyses_cache = Filled(n)
          /\ tick = n
    /\ last_call = [op |-> "none"]
    /\ SideIdle

otherVars == <<pc, site, run_llm_tests, keys, db, crawl_data, kb_result,
               questions, llm_results, result, stored, refined, sent,
               radius_analyses, runs, replies>>

CachePut ==
    /\ pc = "cache"
    /\ Len(calls) < MaxCalls
    /\ \E analysis_id \in AskedIds, data \in CacheData :
          /\ _analyses_cache' = _cache_put(analysis_id, data)
          /\ last_call' = [op |-> "put", id |-> analysis_id, data |-> data,
                           before |-> _analyses_cache, got |-> None]
    /\ tick' = tick + 1
    /\ calls' = Append(calls, "_cache_put")
    /\ UNCHANGED <<otherVars, sideVars>>

CacheGet ==
    /\ pc = "cache"
    /\ Len(calls) < MaxCalls
    /\ \E analysis_id \in AskedIds :
          last_call' = [op |-> "get", id |-> analysis_id,
                        data |-> [overallScore |-> 0],
                        before |-> _analyses_cache,
                        got |-> _cache_get(analysis_id)]
    /\ calls' = Append(calls, "_cache_get")
    /\ UNCHANGED <<otherVars, _analyses_cache, tick, sideVars>>

NextCache == CachePut \/ CacheGet

SpecCache == InitCache /\ [][NextCache]_vars

(***************************************************************************)
(* The crawler on its own: one call of crawl_comprehensive(max_pages) on a *)
(* site that serves any set of the first MaxServed priority paths and      *)
(* possibly the last one.                                                  *)
(***************************************************************************)
MaxN == 10

CrawlSites ==
    {[domain |-> "example.com", served |-> S, len |-> 2600, title |-> "Acme"] :
        S \in SUBSET (1..MaxServed \cup {Len(priority_paths)})}

InitCrawl ==
    /\ pc = "crawler"
    /\ site \in CrawlSites
    /\ max_pages \in 0..MaxN
    /\ requested = <<>>
    /\ run_llm_tests = FALSE
    /\ keys = {}
    /\ db = FALSE
    /\ crawl_data = NoCrawl
    /\ kb_result = NoKb
    /\ questions = NoQuestions
    /\ llm_results = NoLlmResults
    /\ result = NewResult
    /\ calls = <<>>
    /\ stored = FALSE
    /\ refined = NoRefined
    /\ sent = NothingSent
    /\ ServerIdle
    /\ KnowledgeIdle

\* crawler.crawl_comprehensive(max_pages)
CrawlComprehensive ==
    /\ pc = "crawler"
    /\ crawl_data' = crawl_comprehensive(site, max_pages)
    /\ requested' = CrawlRequests(site, max_pages)
    /\ calls' = Append(calls, "crawl")
    /\ pc' = "crawled"
    /\ UNCHANGED <<site, run_llm_tests, keys, db, kb_result, questions,
                   llm_results, result, stored, refined, sent, serverVars,
                   max_pages, knowledgeVars>>

NextCrawl == CrawlComprehensive

SpecCrawl == InitCrawl /\ [][NextCrawl]_vars

(***************************************************************************)
(* The refiner on its own: one call of refine_and_create_kb on the crawl   *)
(* of a site.  Besides the replies of KbOutcomes the chat-completion call  *)
(* may return a knowledge base holding placeholder language, an empty      *)
(* field, or the marker the system prompt asks for.                        *)
(***************************************************************************)
RefinerOutcomes ==
    KbOutcomes
    \cup {[kind |-> "json", kb |-> KbContent("Acme", "2015", "lorem ipsum", TRUE)],
          [kind |-> "json", kb |-> KbContent("Acme", "", "CRM software", TRUE)],
          [kind |-> "json",
           kb |-> KbContent("Acme", "Not explicitly stated", "CRM software", TRUE)]}

InitRefine ==
    /\ pc = "refiner"
    /\ site \in Sites
    /\ keys \in {{}, {"chatgpt"}}
    /\ crawl_data = crawl_comprehensive(site, 10)
    /\ run_llm_tests = FALSE
    /\ db = FALSE
    /\ kb_result = NoKb
    /\ questions = NoQuestions
    /\ llm_results = NoLlmResults
    /\ result = NewResult
    /\ calls = <<"crawl">>
    /\ stored = FALSE
    /\ refined = NoRefined
    /\ sent = NothingSent
    /\ ServerIdle
    /\ SideIdle

\* knowledge_engine.refine_and_create_kb(crawl_data)
RefineOnce ==
    /\ pc = "refiner"
    /\ \E gpt \in RefinerOutcomes :
          /\ "chatgpt" \in keys \/ gpt.kind = "raise"
          /\ kb_result' = refine_and_create_kb(crawl_data, "chatgpt" \in keys, gpt)
    /\ calls' = Append(calls, "refine")
    /\ pc' = "refined"
    /\ UNCHANGED <<site, run_llm_tests, keys, db, crawl_data, questions,
                   llm_results, result, stored, refined, sent, serverVars,
                   sideVars>>

NextRefine == RefineOnce

SpecRefine == InitRefine /\ [][NextRefine]_vars

(***************************************************************************)
(* The knowledge store: the background task /api/analyze starts for its    *)
(* analysis id, interleaved with the knowledge-base endpoints.  The event  *)
(* loop runs one coroutine at a time; the task gives up control once, at   *)
(* its await of the scraper, and every service method runs to its end.     *)
(* The timestamps (created_at, updated_at, last_edited) are left out.      *)
(***************************************************************************)
MaxKbRequests == 3

MaxEvidence == 2

TaskCompany == "analysis_1"

KnowledgeBase(overview, ai_generated, tone, ai_extracted) ==
    [company_description |-> [overview |-> overview,
                              is_ai_generated |-> ai_generated],
     brand_guidelines |-> [tone |-> tone, is_ai_extracted |-> ai_extracted],
     evidence |-> <<>>]

_empty_knowledge_base == KnowledgeBase("", FALSE, "None", FALSE)

generate_initial_knowledge ==
    KnowledgeBase("A leading technology company", TRUE,
                  "professional yet approachable", FALSE)

\* What synthesize_knowledge_base returns: the formatted GPT output, the
\* fallback generated from domain knowledge, or the domain profile.
SynthesizerOutcomes ==
    {KnowledgeBase("synthesized overview", TRUE, "Professional", TRUE),
     KnowledgeBase("generated from domain knowledge", TRUE, "Professional", TRUE),
     KnowledgeBase("domain profile", FALSE, "Professional", FALSE)}

\* The request bodies of the three editing endpoints.
Descriptions == {[overview |-> "user overview"]}

Guidelines == {[tone |-> "user tone"]}

EvidenceItems == {[title |-> "case study"]}

\* dict.update(changes)
Update(d, changes) ==
    [k \in DOMAIN d \cup DOMAIN changes |->
        IF k \in DOMAIN changes THEN changes[k] ELSE d[k]]

\* if company_id not in _knowledge_store: _knowledge_store[company_id] = first
StoredOr(company_id, first) ==
    IF _knowledge_store[company_id] = <<>> THEN first
    ELSE _knowledge_store[company_id][1]

InitKnowledge ==
    /\ pc = "knowledge"
    /\ site = ServerSite
    /\ run_llm_tests = FALSE
    /\ keys = {}
    /\ db = FALSE
    /\ crawl_data = NoCrawl
    /\ kb_result = NoKb
    /\ questions = NoQuestions
    /\ llm_results = NoLlmResults
    /\ result = NewResult
    /\ calls = <<>>
    /\ stored = FALSE
    /\ refined = NoRefined
    /\ sent = NothingSent
    /\ ServerIdle
    /\ SideIdle

restVars == <<otherVars, _analyses_cache, tick, last_call, max_pages,
              requested>>

\* asyncio.create_task(knowledge_service.generate_from_website(url,
\* company_id=analysis_id)): the task runs up to its await of the scraper.
CreateTask ==
    /\ pc = "knowledge"
    /\ task = "none"
    /\ task' = "scraping"
    /\ UNCHANGED <<_knowledge_store, calls, restVars>>

\* The scraper returned within 15 s: synthesize and store.
TaskStores ==
    /\ task = "scraping"
    /\ \E knowledge \in SynthesizerOutcomes :
          _knowledge_store' =
              [_knowledge_store EXCEPT ![TaskCompany] = <<knowledge>>]
    /\ task' = "done"
    /\ UNCHANGED <<calls, restVars>>

\* except asyncio.TimeoutError
TaskTimesOut ==
    /\ task = "scraping"
    /\ _knowledge_store' =
          [_knowledge_store EXCEPT ![TaskCompany] = <<_empty_knowledge_base>>]
    /\ task' = "done"
    /\ UNCHANGED <<calls, restVars>>

\* except Exception: the empty structure is returned, nothing is stored
TaskFails ==
    /\ task = "scraping"
    /\ task' = "done"
    /\ UNCHANGED <<_knowledge_store, calls, restVars>>

\* GET /api/knowledge-base
GetKnowledgeBase ==
    /\ pc = "knowledge"
    /\ Len(calls) < MaxKbRequests
    /\ \E company_id \in KbCompanies :
          _knowledge_store' =
              [_knowledge_store EXCEPT ![company_id] =
                  <<StoredOr(company_id, _empty_knowledge_base)>>]
    /\ calls' = Append(calls, "get_knowledge_base")
    /\ UNCHANGED <<task, restVars>>

\* POST /api/knowledge-base/company-description
UpdateCompanyDescription ==
    /\ pc = "knowledge"
    /\ Len(calls) < MaxKbRequests
    /\ \E company_id \in KbCompanies, description \in Descriptions :
          \E kb \in {StoredOr(company_id, generate_initial_knowledge)} :
             _knowledge_store' =
                 [_knowledge_store EXCEPT ![company_id] =
                     <<[kb EXCEPT !.company_description =
                           [Update(kb.company_description, description)
                               EXCEPT !.is_ai_generated = FALSE]]>>]
    /\ calls' = Append(calls, "update_company_description")
    /\ UNCHANGED <<task, restVars>>

\* POST /api/knowledge-base/brand-guidelines
UpdateBrandGuidelines ==
    /\ pc = "knowledge"
    /\ Len(calls) < MaxKbRequests
    /\ \E company_id \in KbCompanies, guidelines \in Guidelines :
          \E kb \in {StoredOr(company_id, generate_initial_knowledge)} :
             _knowledge_store' =
                 [_knowledge_store EXCEPT ![company_id] =
                     <<[kb EXCEPT !.brand_guidelines =
                           Update(kb.brand_guidelines, guidelines)]>>]
    /\ calls' = Append(calls, "update_brand_guidelines")
    /\ UNCHANGED <<task, restVars>>

\* POST /api/knowledge-base/evidence
AddEvidence ==
    /\ pc = "knowledge"
    /\ Len(calls) < MaxKbRequests
    /\ \E company_id \in KbCompanies, evidence \in EvidenceItems :
          \E kb \in {StoredOr(company_id, generate_initial_knowledge)} :
             /\ Len(kb.evidence) < MaxEvidence
             /\ _knowledge_store' =
                   [_knowledge_store EXCEPT ![company_id] =
                       <<[kb EXCEPT !.evidence =
                             Append(kb.evidence,
                                    [id |-> Len(kb.evidence) + 1,
                                     title |-> evidence.title])]>>]
    /\ calls' = Append(calls, "add_evidence")
    /\ UNCHANGED <<task, restVars>>

NextKnowledge ==
    CreateTask \/ TaskStores \/ TaskTimesOut \/ TaskFails \/ GetKnowledgeBase
    \/ UpdateCompanyDescription \/ UpdateBrandGuidelines \/ AddEvidence

SpecKnowledge == InitKnowledge /\ [][NextKnowledge]_vars

(***************************************************************************)
(* Properties.                                                             *)
(***************************************************************************)
Dimensions == {"accuracy", "consistency", "safety", "readability"}

\* A score report computed from tester results is in the returned record.
Scored == result.has_scores /\ result.llm_tests = "results"

Clamp(x) == Max2(0, Min2(100, x))

\* C1: in every score report computed from tester results (real, simulated
\* or all-unavailable), each of the four dimension scores is an integer
\* between 0 and 100.
C1_DimensionScoresInRange ==
    Scored => \A d \in Dimensions :
                 result.scores.dimension_scores[d].score \in 0..100

\* C2: the overall score of a computed report is the weighted sum
\* 0.30 accuracy + 0.35 consistency + 0.20 safety + 0.15 readability of the
\* dimension scores, brought to an integer and clamped to [0, 100].
C2_OverallIsClampedWeightedSum ==
    Scored =>
        LET d == result.scores.dimension_scores
            weighted == 30 * d.accuracy.score + 35 * d.consistency.score
                        + 20 * d.safety.score + 15 * d.readability.score
        IN  /\ result.scores.overall_score.score \in 0..100
            /\ result.scores.overall_score.score
                  \in {Clamp(weighted \div 100), Clamp((weighted + 50) \div 100)}

\* The grade the fixed cutoffs give a score.
CutoffGrade(score) ==
    IF score >= 90 THEN "A+" ELSE IF score >= 80 THEN "A"
    ELSE IF score >= 70 THEN "B" ELSE IF score >= 60 THEN "C"
    ELSE IF score >= 50 THEN "D" ELSE "F"

\* C3: the overall grade of every score record, the one built without LLM
\* tests included, follows the fixed cutoffs: A+ from 90, A from 80, B from
\* 70, C from 60, D from 50, F below.
C3_OverallGradeByCutoffs ==
    result.has_scores =>
        result.scores.overall_score.grade
            = CutoffGrade(result.scores.overall_score.score)

StageOrder == <<"crawl", "refine", "questions", "llm_tests", "scoring",
                "persist">>

StageIndex(stage) == CHOOSE i \in 1..Len(StageOrder) : StageOrder[i] = stage

\* The stages invoked so far were invoked in the fixed order, none twice.
StagesInOrder ==
    \A i \in 1..Len(calls), j \in 1..Len(calls) :
        i < j => StageIndex(calls[i]) < StageIndex(calls[j])

\* C4: the stages of a run are invoked in the order crawl, refine,
\* questions, LLM tests, scoring, persistence, each at most once; with
\* run_llm_tests false the tester is never invoked and the returned record
\* has phases.llm_tests marked skipped.
C4_StagesInOrderAndSkipMarked ==
    /\ StagesInOrder
    /\ ~run_llm_tests =>
          /\ \A i \in 1..Len(calls) : calls[i] # "llm_tests"
          /\ pc = "done" => result.llm_tests = "skipped"

\* C5: a run without LLM tests in which no stage raised returns
\* overallScore = int(confidence_score * 60), the same number in
\* scores.overall_score.score, and empty dimension scores, platform scores
\* and recommendations.
C5_BasicScoreFromConfidence ==
    (pc = "done" /\ ~run_llm_tests /\ ~result.error) =>
        LET c == kb_result.metadata.confidence_score
            v == result.overallScore
        IN  /\ result.has_overallScore /\ result.has_scores
            /\ v * c.d <= 60 * c.n /\ 60 * c.n < (v + 1) * c.d
            /\ result.scores.overall_score.score = v
            /\ result.scores.dimension_scores = <<>>
            /\ result.scores.platform_scores = <<>>
            /\ result.scores.recommendations = <<>>

\* C5 witness: a run without LLM tests on a GPT-refined MEDIUM knowledge
\* base returned 39.
C5_Witness ==
    /\ pc = "done" /\ ~run_llm_tests /\ ~result.error
    /\ kb_result.metadata.overall_confidence = "MEDIUM"
    /\ result.overallScore = 39

\* Every stage has produced its output in the returned record.
CompleteRecord ==
    /\ {"crawl", "knowledge_base", "questions"} \subseteq result.phases
    /\ result.has_knowledgeBase /\ result.has_questions
    /\ result.has_scores /\ result.has_overallScore

\* C6: with no API key configured for any provider, a run (with or without
\* LLM tests) never takes the exception path and returns a complete
\* record without an 'error' entry whose overallScore is in [0, 100].
C6_NoKeysCompleteRecord ==
    keys = {} =>
        /\ ~result.error
        /\ pc = "done" => CompleteRecord /\ result.overallScore \in 0..100

\* C6 witness: a run with LLM tests and no key returned; all four platforms
\* were unavailable and the report scored 17.
C6_Witness ==
    /\ pc = "done" /\ keys = {} /\ run_llm_tests
    /\ \A p \in Providers : ~llm_results.platforms[p].available
    /\ CompleteRecord /\ result.overallScore = 17

\* C7: whatever the pages, the LLM calls, the shape of the LLM's JSON and
\* the store do, the returned record is complete and carries no 'error'
\* entry.
C7_NoFailureAbortsARun ==
    pc = "done" => ~result.error /\ CompleteRecord

\* The fixed three-question set of the question generator.
IsFallbackQuestionSet(qs) ==
    /\ qs.metadata.source = "fallback"
    /\ Len(qs.questions) = 3

\* C8: when no page of the domain is reachable, the refiner falls back and
\* run_llm_tests is false, the run returns a LOW knowledge base, the
\* three-question fallback set and overallScore 24.
C8_UnreachableSiteScores24 ==
    (/\ pc = "done" /\ ~run_llm_tests
     /\ crawl_data.metadata.pages_successful = 0
     /\ kb_result.metadata.source = "fallback") =>
        /\ kb_result.metadata.overall_confidence = "LOW"
        /\ IsFallbackQuestionSet(questions)
        /\ result.overallScore = 24

\* The label and score the two thresholds give a crawl result.
ThresholdConfidence(pages, chars) ==
    IF pages >= 5 /\ chars > 10000 THEN <<"HIGH", Rat(85, 100)>>
    ELSE IF pages >= 3 /\ chars > 5000 THEN <<"MEDIUM", Rat(65, 100)>>
    ELSE <<"LOW", Rat(4, 10)>>

TotalChars(crawl) ==
    SumSeq([i \in 1..Len(ContentTypeOrder) |->
               crawl.raw_content[ContentTypeOrder[i]]])

\* C9: every knowledge base the refiner returns, the fallback one included,
\* carries the label and score the thresholds give its crawl result (HIGH
\* 0.85, MEDIUM 0.65, LOW 0.4), so LOW always comes with 0.4.
C9_ConfidenceFixedByThresholds ==
    "refine" \in {calls[i] : i \in 1..Len(calls)} =>
        LET t == ThresholdConfidence(crawl_data.metadata.pages_successful,
                                     TotalChars(crawl_data))
        IN  /\ kb_result.metadata.overall_confidence = t[1]
            /\ RatEq(kb_result.metadata.confidence_score, t[2])
            /\ kb_result.metadata.overall_confidence = "LOW"
                  => RatEq(kb_result.metadata.confidence_score, Rat(4, 10))

LabelRank(label) == CASE label = "LOW" -> 1 [] label = "MEDIUM" -> 2
                      [] label = "HIGH" -> 3

\* Crawl result x has strictly more successful pages and strictly more
\* characters than y.
StrictlyMore(x, y) ==
    /\ x.metadata.pages_successful > y.metadata.pages_successful
    /\ TotalChars(x) > TotalChars(y)

\* C10 as stated: of two crawl results refined under the same key
\* configuration, the one with strictly more pages and characters never
\* gets the lower label.
C10_MonotoneUnderSameKeys ==
    (refined.done /\ StrictlyMore(refined.a, refined.b)) =>
        LabelRank(refined.kb_a.metadata.overall_confidence)
            >= LabelRank(refined.kb_b.metadata.overall_confidence)

\* C10 amended: the label is monotone when both refinements ended the same
\* way, both scored from the model's answer or both by the fallback.
C10_MonotoneOnSamePath ==
    (/\ refined.done /\ StrictlyMore(refined.a, refined.b)
     /\ refined.kb_a.metadata.source = refined.kb_b.metadata.source) =>
        LabelRank(refined.kb_a.metadata.overall_confidence)
            >= LabelRank(refined.kb_b.metadata.overall_confidence)

\* C10 witness: both refinements were scored from the model's answer; the
\* larger crawl result got HIGH, the smaller one LOW.
C10_Witness ==
    /\ refined.done /\ StrictlyMore(refined.a, refined.b)
    /\ refined.kb_a.metadata.source = "gpt_refined"
    /\ refined.kb_b.metadata.source = "gpt_refined"
    /\ refined.kb_a.metadata.overall_confidence = "HIGH"
    /\ refined.kb_b.metadata.overall_confidence = "LOW"

\* The replies of get_test_question that carried a question.
Answered == {i \in 1..Len(replies) :
                replies[i].endpoint = "test-question" /\ replies[i].status = 200}

\* The stored analysis a test-question request reads.
StoredFor(analysis_id) == find_one(analysis_id)[1]

\* C11: two calls of get_test_question for the same stored analysis and
\* platform return the same question text and the same question id; the text
\* is the text of a question of the stored QuestionSet; the call generates no
\* question and leaves the stored analysis as the run that stored it wrote it.
C11_TestQuestionRepeatable ==
    /\ \A i \in Answered : \A j \in Answered :
          (/\ replies[i].analysis_id = replies[j].analysis_id
           /\ replies[i].body.platform = replies[j].body.platform)
          => /\ replies[i].body.question = replies[j].body.question
             /\ replies[i].body.question_id = replies[j].body.question_id
    /\ \A i \in Answered :
          LET qs == StoredFor(replies[i].analysis_id).questions
          IN  \E k \in 1..Len(qs) :
                 qs[k].has_text /\ qs[k].text = replies[i].body.question
    /\ \A k \in 1..Len(radius_analyses) :
          LET d == radius_analyses[k]
          IN  /\ d.questions = runs[d.run].questions
              /\ d.analysisId = runs[d.run].analysisId
    /\ \A r \in 1..Len(runs) :
          Len(SelectSeq(runs[r].calls, LAMBDA c : c = "questions")) <= 1

\* C11 witness: the same analysis was asked twice for the same platform and
\* answered with a question both times.
C11_Witness ==
    /\ Len(replies) = 2
    /\ Answered = {1, 2}
    /\ replies[1].analysis_id = replies[2].analysis_id
    /\ replies[1].body.platform = replies[2].body.platform

\* Whether reply i returns question k of the stored QuestionSet qs.
Returns(i, qs, k) ==
    /\ qs[k].has_text /\ qs[k].text = replies[i].body.question
    /\ qs[k].has_id /\ qs[k].id = replies[i].body.question_id

\* C12: whenever get_test_question returns a question, it is a question of
\* category DISCOVERY of the stored QuestionSet, and the category it reports
\* is the one stored for that question.
C12_ReturnsADiscoveryQuestion ==
    \A i \in Answered :
        LET qs == StoredFor(replies[i].analysis_id).questions
        IN  \E k \in 1..Len(qs) :
               /\ Returns(i, qs, k)
               /\ qs[k].category = "DISCOVERY"
               /\ replies[i].body.category = qs[k].category

\* C12, amended: the question returned is the first DISCOVERY question of
\* the stored QuestionSet when it has one and its first question otherwise;
\* the category reported is the one stored for that question, or DISCOVERY
\* when the question stores none.
C12_FirstDiscoveryElseFirst ==
    \A i \in Answered :
        LET qs == StoredFor(replies[i].analysis_id).questions
            found == {k \in 1..Len(qs) : qs[k].category = "DISCOVERY"}
            k == IF found = {} THEN 1
                 ELSE CHOOSE m \in found : \A n \in found : m <= n
        IN  /\ qs # <<>>
            /\ Returns(i, qs, k)
            /\ replies[i].body.category =
                  IF qs[k].category = Missing THEN "DISCOVERY"
                  ELSE qs[k].category

\* C12 witness: a question was returned for a stored QuestionSet of several
\* questions whose only DISCOVERY question is the last one.
C12_Witness ==
    \E i \in Answered :
        LET qs == StoredFor(replies[i].analysis_id).questions
        IN  /\ Len(qs) = MaxSet
            /\ qs[MaxSet].category = "DISCOVERY"
            /\ \A k \in 1..(MaxSet - 1) : qs[k].category = "TRUST"
            /\ replies[i].body.question_id = qs[MaxSet].id

\* Whether the run made a request that carried question k of its list: one
\* of the per-question requests, or the simulation request, whose prompt
\* holds the first three questions.
WasSent(run, k) ==
    \/ \E p \in Providers : k <= run.sent.asked[p]
    \/ run.sent.simulate > 0 /\ k <= 3

\* C13: the question get_test_question returns for an analysis is among the
\* questions the tester sent to a provider in the run that produced the
\* analysis.
C13_ReturnedQuestionWasSent ==
    \A i \in Answered :
        LET d == StoredFor(replies[i].analysis_id)
        IN  \E k \in 1..Len(d.questions) :
               Returns(i, d.questions, k) /\ WasSent(runs[d.run], k)

\* C14: in every available PlatformResult of a tester run, real or
\* simulated, mention_count <= questions_tested <= 5 and mention_rate is
\* mention_count / questions_tested (0 when no question was tested).
C14_MentionRateIsCountOverTested ==
    result.llm_tests = "results" =>
        \A p \in Providers :
            LET r == llm_results.platforms[p]
            IN  r.available =>
                  /\ r.mention_count <= r.questions_tested
                  /\ r.questions_tested <= 5
                  /\ Fl(r.mention_rate) =
                        IF r.questions_tested = 0 THEN Fl(Zero)
                        ELSE FDiv(r.mention_count, r.questions_tested)

\* test_all_llms was called in this run.
TesterCalled == \E i \in 1..Len(calls) : calls[i] = "llm_tests"

\* C15: with only the OpenAI key configured, test_all_llms sends OpenAI one
\* request per question (the first five), calls none of the other three
\* providers, makes exactly one more OpenAI request to simulate those three,
\* and marks their results as simulated.
C15_OpenAiTestedOthersSimulated ==
    (keys = {"chatgpt"} /\ result.llm_tests = "results") =>
        /\ sent.asked["chatgpt"] = Len(Take(questions.questions, 5))
        /\ \A p \in Providers \ {"chatgpt"} : sent.asked[p] = 0
        /\ sent.simulate = 1
        /\ \A p \in Providers \ {"chatgpt"} : llm_results.platforms[p].simulated
        /\ ~llm_results.platforms["chatgpt"].simulated

\* C15, amended: with only the OpenAI key configured, test_all_llms sends no
\* per-question request to any provider, OpenAI included, and at most one
\* OpenAI request in all, the simulation request; when it returns results
\* that request was made, all four results are simulated ones, and the
\* results as a whole are marked simulated.
C15_AllFourSimulatedByOneCall ==
    (keys = {"chatgpt"} /\ TesterCalled) =>
        /\ \A p \in Providers : sent.asked[p] = 0
        /\ sent.simulate <= 1
        /\ result.llm_tests = "results" =>
              /\ sent.simulate = 1
              /\ llm_results.simulated
              /\ \A p \in Providers :
                    /\ llm_results.platforms[p].available
                    /\ llm_results.platforms[p].simulated
                    /\ llm_results.platforms[p].results = <<>>

\* C15 witness: the tester returned results for a non-empty QuestionSet with
\* only the OpenAI key configured.
C15_Witness ==
    /\ keys = {"chatgpt"}
    /\ result.llm_tests = "results"
    /\ Len(questions.questions) > 0
    /\ sent.simulate = 1
    /\ llm_results.platforms["chatgpt"].questions_tested > 0

RealRequests == keys # {} /\ keys # {"chatgpt"}

\* entries of a provider's results list that count as a mention
Mentions(results) ==
    Len(SelectSeq(results, LAMBDA r : ~r.error /\ r.analysis.mentioned))

\* C17: a provider tested with real requests on n questions is sent the
\* first min(5, n) questions whatever happens to the earlier ones, and its
\* results list has min(5, n) entries in question order, error entries
\* counted in questions_tested and never in mention_count.
C17_EveryQuestionSentAndRecorded ==
    (RealRequests /\ TesterCalled) =>
        LET tested == Take(questions.questions, 5)
        IN  /\ result.llm_tests = "results"
            /\ \A p \in keys :
                  LET r == llm_results.platforms[p]
                  IN  /\ sent.asked[p] = Len(tested)
                      /\ Len(r.results) = Len(tested)
                      /\ \A i \in 1..Len(tested) :
                            r.results[i].question_id = tested[i].id
                      /\ r.questions_tested = Len(tested)
                      /\ r.mention_count = Mentions(r.results)

\* C18: no two run_full_analysis calls return records with the same
\* analysisId, calls given an analysis_id by the caller included, and every
\* run crawls and, unless it is aborted, scores for itself.
C18_RunsHaveDistinctIds ==
    /\ \A i, j \in 1..Len(runs) :
          i # j => runs[i].analysisId # runs[j].analysisId
    /\ \A i \in 1..Len(runs) :
          /\ runs[i].calls[1] = "crawl"
          /\ ~runs[i].error => runs[i].calls[Len(runs[i].calls)] = "scoring"

\* Runs whose insert_one raised: a database handle was passed, the run
\* reached the write, and no document was stored.
FailedWrites ==
    {i \in 1..Len(runs) :
        ~runs[i].error /\ runs[i].store # "none" /\ ~runs[i].inserted}

\* C19: a run whose insert_one raised returns the record a run on the same
\* input returns when the write is not attempted or succeeds, and its record
\* can be fetched by its analysis id from the in-memory cache.
C19_FailedWriteKeepsRecord ==
    \A i \in FailedWrites :
        /\ \A j \in 1..Len(runs) :
              (/\ j \notin FailedWrites
               /\ runs[j].tests = runs[i].tests
               /\ runs[j].questions = runs[i].questions)
              => /\ runs[j].error = runs[i].error
                 /\ runs[j].overallScore = runs[i].overallScore
                 /\ runs[j].has_questions = runs[i].has_questions
                 /\ runs[j].calls = runs[i].calls
        /\ _cache_get(runs[i].analysisId) # None

\* the keys of a cache
Keys(cache) == {cache[i].id : i \in 1..Len(cache)}

\* the item of a non-empty cache whose key was inserted first
Earliest(cache) ==
    CHOOSE e \in {cache[i] : i \in 1..Len(cache)} :
        \A i \in 1..Len(cache) : e.stamp <= cache[i].stamp

\* C20: after any sequence of _cache_put and _cache_get calls the cache
\* holds at most 200 entries; a put of an id that is not present into a
\* cache of 200 entries removes the entry inserted earliest and no other;
\* _cache_get right after a put returns the data that was put; _cache_get
\* itself leaves the cache as it was.  (An entry's insertion is the put that
\* created its key; a put of a key that is present replaces its data.)
C20_CacheBoundedFifo ==
    /\ Len(_analyses_cache) <= 200
    /\ Cardinality(Keys(_analyses_cache)) = Len(_analyses_cache)
    /\ (/\ last_call.op = "put"
        /\ Len(last_call.before) = 200
        /\ last_call.id \notin Keys(last_call.before))
       => \A gone \in {Earliest(last_call.before)} :
             /\ Keys(_analyses_cache) =
                   (Keys(last_call.before) \ {gone.id}) \cup {last_call.id}
             /\ \A i \in 1..Len(last_call.before) :
                   last_call.before[i] # gone
                   => \E k \in 1..Len(_analyses_cache) :
                         _analyses_cache[k] = last_call.before[i]
    /\ last_call.op = "put" => _cache_get(last_call.id) = <<last_call.data>>
    /\ last_call.op = "get" => _analyses_cache = last_call.before

\* C20 witness: a put of a new id into a cache of 200 entries has evicted
\* one, and a later put of a new id has evicted the next.
C20_Witness ==
    /\ last_call.op = "put"
    /\ Len(last_call.before) = 200
    /\ last_call.id \notin Keys(last_call.before)
    /\ AnalysisId(1) \notin Keys(last_call.before)
    /\ AnalysisId(2) \notin Keys(_analyses_cache)
    /\ Len(_analyses_cache) = 200

\* C21: crawl_comprehensive(max_pages = N) with N <= 10 visits at most N
\* pages, pages_attempted <= N at return; for a domain that serves nothing
\* (its homepage answers 404) the tally is 1 attempted and 0 successful.
C21_AtMostNPagesVisited ==
    pc = "crawled" =>
        /\ crawl_data.metadata.pages_attempted <= max_pages
        /\ (site.served = {} /\ max_pages >= 1) =>
              /\ crawl_data.metadata.pages_attempted = 1
              /\ crawl_data.metadata.pages_successful = 0

\* the number of the first k priority paths the site serves
ServedAmong(k) == Cardinality({i \in 1..k : i \in site.served})

\* C27: crawl_comprehensive requests the priority paths in list order; a
\* page that fails is skipped and the crawl goes on; the loop stops as soon
\* as max_pages pages have succeeded or the list is exhausted; at return
\* pages_successful is the number of stored pages and is at most
\* min(max_pages, pages_attempted).
C27_CrawlInOrderSkippingFailures ==
    pc = "crawled" =>
        LET n == Len(requested)
        IN  /\ n <= Len(priority_paths)
            /\ \A i \in 1..n : requested[i] = i
            /\ crawl_data.pages = {i \in 1..n : i \in site.served}
            /\ n = Len(priority_paths) \/ ServedAmong(n) >= max_pages
            /\ n > 0 => ServedAmong(n - 1) < max_pages
            /\ crawl_data.metadata.pages_attempted = n
            /\ crawl_data.metadata.pages_successful =
                  Cardinality(crawl_data.pages)
            /\ crawl_data.metadata.pages_successful
                  <= Min2(max_pages, crawl_data.metadata.pages_attempted)

\* C27 witness: a crawl that skipped a failed page, stored a later one, and
\* stopped before the end of the list because max_pages pages had succeeded.
C27_Witness ==
    /\ pc = "crawled"
    /\ 1 \notin crawl_data.pages
    /\ 3 \in crawl_data.pages
    /\ Len(requested) < Len(priority_paths)
    /\ crawl_data.metadata.pages_successful = max_pages
    /\ max_pages >= 2

\* The leaf fields of a knowledge base.
Leaves(kb) ==
    {kb.company_overview.name, kb.company_overview.founded,
     kb.business_model.primary_offering}

\* Strings that stand for missing content without being the marker.
OtherPlaceholders == {"", "Not stated", "Not determined"}

\* C22: in every KnowledgeBase refine_and_create_kb returns, LLM-refined or
\* fallback, each leaf field is non-empty and is real content or the marker
\* "Not explicitly stated", never an empty string or another placeholder.
C22_LeavesAreContentOrMarker ==
    pc = "refined" =>
        \A leaf \in Leaves(kb_result.knowledge_base) :
            leaf # "" /\ leaf \notin OtherPlaceholders

\* The phrases and the word floor of the quality gate.
PlaceholderPhrases ==
    {"please describe", "please edit", "not available", "coming soon",
     "lorem ipsum", "placeholder"}

MinWords == 100

\* len(text.split())
WordsIn(text) ==
    CASE text = "" -> 0
      [] text \in {"CRM software", "lorem ipsum", "Not stated",
                   "Not determined"} -> 2
      [] text = "Not explicitly stated" -> 3
      [] OTHER -> 1

\* len(json.dumps(knowledge).split()): one word for each of the five keys
\* and at least one for each value.
KbWords(kb) ==
    5 + Max2(1, WordsIn(kb.company_overview.name))
      + Max2(1, WordsIn(kb.company_overview.founded))
      + Max2(1, WordsIn(kb.business_model.primary_offering))

\* C23: the refiner returns an LLM-generated KnowledgeBase only if no field
\* of it holds placeholder language and its word count reaches the floor;
\* otherwise it returns the fallback KnowledgeBase.
C23_GeneratedKbPassedTheGate ==
    (pc = "refined" /\ kb_result.metadata.source = "gpt_refined") =>
        /\ Leaves(kb_result.knowledge_base) \cap PlaceholderPhrases = {}
        /\ KbWords(kb_result.knowledge_base) >= MinWords

\* C24: when the crawl reaches no page and the refiner falls back, the
\* fallback KnowledgeBase is named from the hostname (example.com gives
\* "Example"), and the brand name handed downstream is not empty.
C24_FallbackNamedFromHost ==
    (/\ TRUE \in {calls[i] = "refine" : i \in 1..Len(calls)}
     /\ crawl_data.metadata.pages_successful = 0
     /\ kb_result.metadata.source = "fallback")
    => /\ kb_result.knowledge_base.company_overview.name
             = HostLabel(crawl_data.metadata.domain)
       /\ result.brand_name # ""

\* The responses the accuracy dimension analyzes: the entries without
\* 'error' of the available platforms.
Analyzed == VisitedResults(llm_results.platforms, PlatformOrder)

\* The analyzed responses that mention the brand.
AnalyzedMentions == SelectSeq(Analyzed, LAMBDA r : r.analysis.mentioned)

LowRisk(rs) ==
    Len(SelectSeq(rs, LAMBDA r : r.analysis.hallucination_risk = "low"))

\* C25: the accuracy score is the number of mentions flagged low
\* hallucination-risk divided by the number of analyzed mentions, times 100,
\* truncated; details holds the accurate, at-risk and total counts; the
\* result is the sentinel with grade N/A exactly when no response was
\* analyzable.
C25_AccuracyIsLowRiskShareOfMentions ==
    Scored =>
        LET acc == result.scores.dimension_scores.accuracy
            accurate == LowRisk(AnalyzedMentions)
            total == Len(AnalyzedMentions)
        IN  /\ (Analyzed = <<>>) <=> (acc.grade = "N/A")
            /\ Analyzed = <<>> => acc.score = 0 /\ ~acc.details.present
            /\ Analyzed # <<>> =>
                  /\ total > 0
                  /\ acc.score = (100 * accurate) \div total
                  /\ acc.details.accurate_mentions = accurate
                  /\ acc.details.hallucination_risks = total - accurate
                  /\ acc.details.total_analyzed = total

\* The platforms whose result is marked available.
Available == {p \in Providers : llm_results.platforms[p].available}

\* int(20 * (max - min)) over the mention rates of the available platforms
Penalty ==
    IF Available = {} THEN 0
    ELSE LET rates == {llm_results.platforms[p].mention_rate : p \in Available}
         IN  FInt(FMul(FSub(Fl(RatMax(rates)), Fl(RatMin(rates))), 20))

\* C26: the consistency score is int(overall mention rate * 100) minus
\* int(20 * (max - min of the mention rates of the available platforms)),
\* not below 0; unavailable platforms take no part in max and min, and with
\* one available platform nothing is subtracted.
C26_ConsistencyIsRateMinusSpread ==
    Scored =>
        LET base == FInt(FMul(Fl(llm_results.summary.overall_mention_rate), 100))
            score == result.scores.dimension_scores.consistency.score
        IN  /\ score = Max2(0, base - Penalty)
            /\ Cardinality(Available) = 1 => score = Max2(0, base)

\* C26 witness: a report over two or more available platforms whose rates
\* differ enough to be penalised, next to an unavailable platform.
C26_Witness ==
    /\ Scored
    /\ Cardinality(Available) >= 2
    /\ Available # Providers
    /\ Penalty > 0
    /\ result.scores.dimension_scores.consistency.score > 0

\* C28: in simulated mode (only the OpenAI key configured) every platform
\* result has empty results, so the report's accuracy is 0 with grade N/A,
\* safety is 50, readability is 50, and the overall score is
\* int(0.35 * consistency + 17.5).
C28_SimulatedModeScores ==
    (keys = {"chatgpt"} /\ Scored) =>
        LET d == result.scores.dimension_scores
        IN  /\ \A p \in Providers : llm_results.platforms[p].results = <<>>
            /\ d.accuracy.score = 0 /\ d.accuracy.grade = "N/A"
            /\ d.safety.score = 50
            /\ d.readability.score = 50
            /\ result.scores.overall_score.score =
                  FInt(FAdd(FMul(FDiv(35, 100), d.consistency.score),
                            FDiv(35, 2)))

C28_Witness ==
    /\ keys = {"chatgpt"} /\ Scored
    /\ llm_results.simulated
    /\ result.scores.dimension_scores.consistency.score > 0
    /\ result.scores.overall_score.score > 17

\* C29: _cache_put removes an entry only to make room: a put of an id that
\* is already in the cache replaces that id's data and leaves every other
\* cached id and its data unchanged, even when the cache holds 200 entries.
C29_PutOfPresentIdKeepsOthers ==
    (/\ last_call.op = "put"
     /\ last_call.id \in Keys(last_call.before))
    => /\ Keys(_analyses_cache) = Keys(last_call.before)
       /\ \A i \in 1..Len(last_call.before) :
             last_call.before[i].id # last_call.id
             => _cache_get(last_call.before[i].id)
                   = <<last_call.before[i].data>>

\* a user edit is stored in the company's knowledge base
HasUserEdit(company_id) ==
    /\ _knowledge_store[company_id] # <<>>
    /\ \E kb \in {_knowledge_store[company_id][1]} :
          \/ \E d \in Descriptions :
                kb.company_description.overview = d.overview
          \/ \E g \in Guidelines : kb.brand_guidelines.tone = g.tone
          \/ kb.evidence # <<>>

\* C30: for every interleaving of the background generate_from_website task
\* with knowledge-base requests for the same company id, a stored user edit
\* (update_company_description, update_brand_guidelines, add_evidence) is
\* never lost: no later completion or timeout of the task replaces that
\* company's knowledge base.
C30_TaskKeepsUserEdits ==
    [][\A company_id \in KbCompanies :
          (HasUserEdit(company_id) /\ task = "scraping" /\ task' = "done")
          => _knowledge_store'[company_id] = _knowledge_store[company_id]]_vars

====
